---- MODULE Spec2Model ----
(***************************************************************************)
(* Local data ordering and transformation pipeline of slickgrid-universal: *)
(* the sort comparison engine (sort.service.ts), the filter condition      *)
(* dispatcher (the module that ends example22.cy.ts, from line 155) and    *)
(* the flat <-> hierarchical dataset conversions and tree-items roll-up    *)
(* (utilities.ts).  One specification per part: SpecSort, SpecFilter,      *)
(* SpecTree; a part's variables keep their initial value in the others.    *)
(*                                                                         *)
(* A JavaScript object is a function from property names (strings) to      *)
(* values; a property that is absent is a name outside the DOMAIN.  A      *)
(* JavaScript array is a sequence.  null is the number Null, undefined     *)
(* (as a value handed to a parameter) the number Undefined.                *)
(***************************************************************************)
EXTENDS Integers, Sequences, FiniteSets, TLC

VARIABLES
    op,            \* name of the last operation executed ("init" before any)
    dataset,       \* the caller's flat array of rows (parent references)
    hierarchical,  \* the caller's hierarchical array (nested children)
    treeOut,       \* value returned by the last tree conversion
    rollup,        \* outcome of modifyDatasetToAddTreeItemsMapping
    sortColumns,   \* the sort directives handed to sortComparers
    dataRow1,      \* first row of the comparison
    dataRow2,      \* second row of the comparison
    sortOut,       \* outcome of sortComparers
    filterIn,      \* options and parsed search terms of executeMappedCondition
    filterOut,     \* outcome of executeMappedCondition
    given,         \* the hierarchical array as handed to the last tree sort
    svc,           \* the sort service: bound grid, backend flag, current local sorters
    grid,          \* the grid: its options, columns, sort icons and data view
    call,          \* the last call on the service: arguments, outcome and effects
    parseIn,       \* the input of parseBoolean
    parseOut,      \* the value parseBoolean returned
    walk           \* position of modifyDatasetToAddTreeItemsMapping when it runs step by step

vars == <<op, dataset, hierarchical, treeOut, rollup,
          sortColumns, dataRow1, dataRow2, sortOut, filterIn, filterOut,
          given,
          svc,
          grid,
          call,
          parseIn,
          parseOut,
          walk>>

\* ------------------------------------------------------------------ bounds
MaxRows == 3        \* rows of a flat dataset / nodes of a hierarchical one
MaxId == 2          \* row identifiers are 0..MaxId
MaxDirectives == 2  \* sort directives in one multi-column sort
MaxVal == 1         \* cell values are 0..MaxVal

\* ------------------------------------------------- JavaScript value model
Null == 0 - 1
Undefined == 0 - 2

Has(o, k) == k \in DOMAIN o
SetProp(o, k, v) == (k :> v) @@ o
DelProp(o, k) == [x \in DOMAIN o \ {k} |-> o[x]]
EmptyObject == [x \in {} |-> 0]

Ids == 0..MaxId

RECURSIVE SortedSeq(_)
\* the elements of a finite set of integers, ascending
SortedSeq(S) ==
    IF S = {} THEN <<>>
    ELSE LET m == CHOOSE x \in S : \A y \in S : x <= y
         IN  <<m>> \o SortedSeq(S \ {m})

\* ---------------------------------------------------------- utilities.ts
\* $.extend(true, [], array): a deep copy.  The model has value semantics,
\* so the copy is the same value; what the copy protects is the caller's
\* array, which no conversion below writes to.
DeepCopy(array) == array

RECURSIVE AllById(_, _, _)
\* inputArray.forEach((item) => all[item[identifierPropName]] = item):
\* a later row with the same identifier replaces the earlier one
AllById(inputArray, i, all) ==
    IF i > Len(inputArray) THEN all
    ELSE AllById(inputArray, i + 1, SetProp(all, inputArray[i]["id"], inputArray[i]))

\* Object.keys(all): integer keys are listed in ascending order
ObjectKeys(all) == SortedSeq(DOMAIN all)

\* ConnectItem without the two delete statements that end the loop body
ConnectItemKeepingFlags(st, id) ==
    LET item == st.all[id]
        isRoot == ~Has(item, "parentId") \/ item["parentId"] = Null
        isChild == ~isRoot /\ item["parentId"] \in DOMAIN st.all
        pid == item["parentId"]
        p == st.all[pid]
        p1 == IF Has(p, "children") THEN p ELSE SetProp(p, "children", <<>>)
        p2 == SetProp(p1, "children", Append(p1["children"], id))
    IN  [all |-> IF isChild THEN SetProp(st.all, pid, p2) ELSE st.all,
         roots |-> IF isRoot THEN Append(st.roots, id) ELSE st.roots]

\* One pass of the forEach body for the key id.  st.all is the lookup; an
\* object's children property holds the KEYS of its children, because the
\* code pushes references: a child pushed before it receives its own
\* children still shows them in the result.
ConnectItem(st, id) ==
    LET item == st.all[id]
        isRoot == ~Has(item, "parentId") \/ item["parentId"] = Null
        isChild == ~isRoot /\ item["parentId"] \in DOMAIN st.all
        pid == item["parentId"]
        p == st.all[pid]
        p1 == IF Has(p, "children") THEN p ELSE SetProp(p, "children", <<>>)
        p2 == SetProp(p1, "children", Append(p1["children"], id))
        all1 == IF isChild THEN SetProp(st.all, pid, p2) ELSE st.all
        stripped == DelProp(DelProp(all1[id], "__treeLevel"), "__hasChildren")
    IN  [all |-> SetProp(all1, id, stripped),
         roots |-> IF isRoot THEN Append(st.roots, id) ELSE st.roots]

RECURSIVE ConnectAll(_, _, _)
ConnectAll(st, keys, i) ==
    IF i > Len(keys) THEN st
    ELSE ConnectAll(ConnectItem(st, keys[i]), keys, i + 1)

RECURSIVE Materialize(_, _)
\* the object behind a key, its children references followed
Materialize(all, id) ==
    LET o == all[id]
    IN  IF Has(o, "children")
        THEN SetProp(o, "children",
                 [i \in 1..Len(o["children"]) |-> Materialize(all, o["children"][i])])
        ELSE o

convertParentChildFlatArrayToHierarchicalView(flatArray) ==
    LET inputArray == DeepCopy(flatArray)
        all == AllById(inputArray, 1, EmptyObject)
        st == ConnectAll([all |-> all, roots |-> <<>>], ObjectKeys(all), 1)
    IN  [i \in 1..Len(st.roots) |-> Materialize(st.all, st.roots[i])]

\* StampItem that flags only a node whose children array is not empty
StampItemWhenNonEmpty(item, treeLevel, parentId) ==
    LET a == SetProp(item, "__treeLevel", treeLevel)
        b == SetProp(a, "__parentId",
                 IF parentId = Undefined \/ parentId = 0 THEN Null ELSE parentId)
    IN  IF Has(item, "children")
        THEN DelProp(IF item["children"] # <<>> THEN SetProp(b, "__hasChildren", TRUE) ELSE b,
                     "children")
        ELSE b

\* item[treeLevelPropName] = treeLevel; item[parentIdPropName] = parentId || null;
\* and, for an item with a children array, the two statements that follow
\* the recursion (the pushed object is the one they write to)
StampItem(item, treeLevel, parentId) ==
    LET a == SetProp(item, "__treeLevel", treeLevel)
        b == SetProp(a, "__parentId",
                 IF parentId = Undefined \/ parentId = 0 THEN Null ELSE parentId)
    IN  IF Has(item, "children")
        THEN DelProp(SetProp(b, "__hasChildren", TRUE), "children")
        ELSE b

\* PushItem without the itemExist test
PushItemAlways(outputArray, item, treeLevel, parentId) ==
    Append(outputArray, StampItem(item, treeLevel, parentId))

\* const itemExist = outputArray.find(...); if (!itemExist) { ...; outputArray.push(item); }
PushItem(outputArray, item, treeLevel, parentId) ==
    LET itemExist == \E k \in 1..Len(outputArray) : outputArray[k]["id"] = item["id"]
    IN  IF ~itemExist
        THEN Append(outputArray, StampItem(item, treeLevel, parentId))
        ELSE outputArray

RECURSIVE FlattenFrom(_, _, _, _, _)
\* the for..of loop of convertHierarchicalViewToFlatArrayByOutputArrayReference
\* from element i on; the value is the output array
FlattenFrom(hierarchicalArray, i, outputArray, treeLevel, parentId) ==
    IF i > Len(hierarchicalArray) THEN outputArray
    ELSE LET item == hierarchicalArray[i]
             out1 == PushItem(outputArray, item, treeLevel, parentId)
             out2 == IF Has(item, "children")
                     THEN FlattenFrom(item["children"], 1, out1, treeLevel + 1, item["id"])
                     ELSE out1
         IN  FlattenFrom(hierarchicalArray, i + 1, out2, treeLevel, parentId)

convertHierarchicalViewToFlatArrayByOutputArrayReference(hierarchicalArray, outputArray, treeLevel, parentId) ==
    FlattenFrom(hierarchicalArray, 1, outputArray, treeLevel, parentId)

convertHierarchicalViewToFlatArray(hierarchicalArray) ==
    convertHierarchicalViewToFlatArrayByOutputArrayReference(
        DeepCopy(hierarchicalArray), <<>>, 0, Undefined)

\* ------------------------------------- utilities.ts: objects by reference
\* The conversions write to objects.  To see whose objects they write to,
\* a heap is a sequence of objects, an object's address is its position,
\* an array is a sequence of addresses and a children property holds the
\* addresses of the children.
RECURSIVE Load(_, _)
\* the value of the object at an address, children followed
Load(heap, a) ==
    LET o == heap[a]
    IN  IF Has(o, "children")
        THEN SetProp(o, "children", [i \in 1..Len(o["children"]) |-> Load(heap, o["children"][i])])
        ELSE o

LoadAll(heap, refs) == [i \in 1..Len(refs) |-> Load(heap, refs[i])]

RECURSIVE StoreFrom(_, _, _, _)
\* new objects for the values from position i on, children arrays included
StoreFrom(heap, values, i, refs) ==
    IF i > Len(values) THEN [heap |-> heap, refs |-> refs]
    ELSE LET a == Len(heap) + 1
             v == values[i]
             kids == IF Has(v, "children")
                     THEN StoreFrom(Append(heap, v), v["children"], 1, <<>>)
                     ELSE [heap |-> Append(heap, v), refs |-> <<>>]
             heap1 == IF Has(v, "children")
                      THEN [kids.heap EXCEPT ![a] = SetProp(v, "children", kids.refs)]
                      ELSE kids.heap
         IN  StoreFrom(heap1, values, i + 1, Append(refs, a))

\* $.extend([], array): a new array of the same objects
ExtendShallow(heap, refs) == [heap |-> heap, refs |-> refs]

\* $.extend(true, [], array): a new array of new objects, every plain
\* object and array below them new as well
ExtendDeep(heap, refs) == StoreFrom(heap, LoadAll(heap, refs), 1, <<>>)

RECURSIVE AllByIdAt(_, _, _, _)
\* inputArray.forEach((item) => all[item[identifierPropName]] = item)
AllByIdAt(heap, inputArray, i, all) ==
    IF i > Len(inputArray) THEN all
    ELSE AllByIdAt(heap, inputArray, i + 1, SetProp(all, heap[inputArray[i]]["id"], inputArray[i]))

\* the forEach body of convertParentChildFlatArrayToHierarchicalView for
\* the key id, on the objects themselves
ConnectItemAt(st, id) ==
    LET a == st.all[id]
        item == st.heap[a]
        isRoot == ~Has(item, "parentId") \/ item["parentId"] = Null
        isChild == ~isRoot /\ item["parentId"] \in DOMAIN st.all
        pa == st.all[item["parentId"]]
        p == st.heap[pa]
        p1 == IF Has(p, "children") THEN p ELSE SetProp(p, "children", <<>>)
        p2 == SetProp(p1, "children", Append(p1["children"], a))
        heap1 == IF isChild THEN [st.heap EXCEPT ![pa] = p2] ELSE st.heap
    IN  [heap |-> [heap1 EXCEPT ![a] = DelProp(DelProp(@, "__treeLevel"), "__hasChildren")],
         all |-> st.all,
         roots |-> IF isRoot THEN Append(st.roots, a) ELSE st.roots]

RECURSIVE ConnectAllAt(_, _, _)
ConnectAllAt(st, keys, i) ==
    IF i > Len(keys) THEN st
    ELSE ConnectAllAt(ConnectItemAt(st, keys[i]), keys, i + 1)

\* convertParentChildFlatArrayToHierarchicalView(flatArray) on the heap:
\* the heap as the call leaves it and the array of roots it returns
convertParentChildFlatArrayToHierarchicalViewAt(heap, flatArray) ==
    LET inputArray == ExtendDeep(heap, flatArray)
        all == AllByIdAt(inputArray.heap, inputArray.refs, 1, EmptyObject)
        st == ConnectAllAt([heap |-> inputArray.heap, all |-> all, roots |-> <<>>],
                           ObjectKeys(all), 1)
    IN  [heap |-> st.heap, refs |-> st.roots]

RECURSIVE FlattenFromAt(_, _, _, _, _, _)
\* the for..of loop of convertHierarchicalViewToFlatArrayByOutputArrayReference
\* from element i on, on the objects themselves
FlattenFromAt(heap, hierarchicalArray, i, outputArray, treeLevel, parentId) ==
    IF i > Len(hierarchicalArray) THEN [heap |-> heap, refs |-> outputArray]
    ELSE LET a == hierarchicalArray[i]
             item == heap[a]
             itemExist == \E k \in 1..Len(outputArray) : heap[outputArray[k]]["id"] = item["id"]
             heap1 == IF itemExist THEN heap
                      ELSE [heap EXCEPT ![a] =
                               SetProp(SetProp(@, "__treeLevel", treeLevel), "__parentId",
                                   IF parentId = Undefined \/ parentId = 0 THEN Null
                                   ELSE parentId)]
             out1 == IF itemExist THEN outputArray ELSE Append(outputArray, a)
             below == IF Has(item, "children")
                      THEN FlattenFromAt(heap1, item["children"], 1, out1, treeLevel + 1,
                                         item["id"])
                      ELSE [heap |-> heap1, refs |-> out1]
             heap2 == IF Has(item, "children")
                      THEN [below.heap EXCEPT ![a] =
                               DelProp(SetProp(@, "__hasChildren", TRUE), "children")]
                      ELSE below.heap
         IN  FlattenFromAt(heap2, hierarchicalArray, i + 1, below.refs, treeLevel, parentId)

\* convertHierarchicalViewToFlatArray(hierarchicalArray) on the heap
convertHierarchicalViewToFlatArrayAt(heap, hierarchicalArray) ==
    LET copy == ExtendDeep(heap, hierarchicalArray)
    IN  FlattenFromAt(copy.heap, copy.refs, 1, <<>>, 0, Undefined)


RECURSIVE DedupeFrom(_, _, _)
DedupeFrom(inputArray, i, out) ==
    IF i > Len(inputArray) THEN out
    ELSE DedupeFrom(inputArray, i + 1,
             IF \E k \in 1..Len(out) : out[k] = inputArray[i]
             THEN out ELSE Append(out, inputArray[i]))

dedupePrimitiveArray(inputArray) == DedupeFrom(inputArray, 1, <<>>)

\* dataView.getItemById(id): the position in items of the row with that
\* identifier, 0 (undefined) when there is none.  items are the data view's
\* own row objects, so a position names the object both sides write to.
getItemById(items, id) ==
    IF \E k \in 1..Len(items) : items[k]["id"] = id
    THEN CHOOSE k \in 1..Len(items) : items[k]["id"] = id
    ELSE 0

\* item[name]: undefined when the property is absent
GetProp(item, name) == IF Has(item, name) THEN item[name] ELSE Undefined

RECURSIVE WalkAncestors(_, _, _, _, _)
\* the while (parent) loop: item and parent are positions in items.  A walk
\* of more than Len(items) steps has met a row twice and never ends.
WalkAncestors(items, item, parent, parentPropName, steps) ==
    IF parent = 0 THEN [status |-> "done", items |-> items]
    ELSE IF ~Has(items[parent], "__treeItems")
    THEN [status |-> "TypeError", items |-> items]
    ELSE IF steps > Len(items)
    THEN [status |-> "endless", items |-> items]
    ELSE LET merged == dedupePrimitiveArray(
                           items[parent]["__treeItems"] \o items[item]["__treeItems"])
             items1 == [items EXCEPT ![parent] = SetProp(@, "__treeItems", merged)]
         IN  WalkAncestors(items1, parent,
                 getItemById(items1, GetProp(items1[parent], parentPropName)),
                 parentPropName, steps + 1)

RECURSIVE AddTreeItemsFrom(_, _, _, _)
\* the for loop of modifyDatasetToAddTreeItemsMapping from row i on
AddTreeItemsFrom(items, i, parentPropName, treeDataColumnId) ==
    IF i > Len(items) THEN [status |-> "done", items |-> items]
    ELSE LET items1 == [items EXCEPT ![i] =
                          SetProp(@, "__treeItems", <<GetProp(@, treeDataColumnId)>>)]
             walked == IF GetProp(items1[i], parentPropName) # Null
                       THEN WalkAncestors(items1, i,
                                getItemById(items1, GetProp(items1[i], parentPropName)),
                                parentPropName, 1)
                       ELSE [status |-> "done", items |-> items1]
         IN  IF walked.status = "done"
             THEN AddTreeItemsFrom(walked.items, i + 1, parentPropName, treeDataColumnId)
             ELSE walked

modifyDatasetToAddTreeItemsMapping(items, parentPropName, treeDataColumnId) ==
    AddTreeItemsFrom(items, 1, parentPropName, treeDataColumnId)

\* the loops of modifyDatasetToAddTreeItemsMapping as a position: pc is the
\* loop about to test its condition, i the row of the for loop, item and
\* parent the positions in items the while loop holds, tick the parity of
\* the number of loop tests made so far
NoWalk == [pc |-> "idle", i |-> 0, item |-> 0, parent |-> 0, tick |-> 0]


\* ------------------------------------------------------- sort.service.ts
\* enum SortDirectionNumber { asc = 1, desc = -1, neutral = 0 }
SortDirectionNumber == [asc |-> 1, desc |-> 0 - 1, neutral |-> 0]

Sign(n) == IF n > 0 THEN 1 ELSE IF n < 0 THEN 0 - 1 ELSE 0

\* the generic type-aware comparator, on numeric values: the numeric
\* comparison, its sign inverted by a descending direction
sortByFieldType(fieldType, value1, value2, sortDirection) ==
    sortDirection * Sign(value1 - value2)

\* the comparators a column definition may carry as sortComparer; each gets
\* (value1, value2, sortDirection) as the service passes them
CustomComparerNames == {"descending", "directed", "weighted", "neutral"}
CustomComparer(name, value1, value2, sortDirection) ==
    CASE name = "descending" -> Sign(value2 - value1)
      [] name = "directed" -> sortDirection * Sign(value1 - value2)
      [] name = "weighted" -> 3 * (value1 - value2)
      [] name = "neutral" -> 0

\* querySortField || columnDef.queryFieldSorter || columnDef.queryField || columnDef.field
QueryFieldName(columnDef) ==
    IF Has(columnDef, "queryFieldSorter") THEN columnDef["queryFieldSorter"]
    ELSE IF Has(columnDef, "queryField") THEN columnDef["queryField"]
    ELSE columnDef["field"]

\* sortComparer in which the direction is applied to the custom result too
sortComparerFlippingCustom(sortColumn, row1, row2) ==
    IF Has(sortColumn, "sortCol")
    THEN LET columnDef == sortColumn["sortCol"]
             sortDirection == IF sortColumn["sortAsc"] THEN SortDirectionNumber.asc
                              ELSE SortDirectionNumber.desc
             value1 == row1[QueryFieldName(columnDef)]
             value2 == row2[QueryFieldName(columnDef)]
             r == IF Has(columnDef, "sortComparer")
                  THEN sortDirection *
                       CustomComparer(columnDef["sortComparer"], value1, value2, sortDirection)
                  ELSE sortByFieldType(IF Has(columnDef, "type") THEN columnDef["type"]
                                       ELSE "string", value1, value2, sortDirection)
         IN  [defined |-> r # SortDirectionNumber.neutral, value |-> r,
              calls |-> IF Has(columnDef, "sortComparer") THEN <<"custom">> ELSE <<"generic">>]
    ELSE [defined |-> FALSE, value |-> 0, calls |-> <<>>]

\* sortComparer(sortColumn, dataRow1, dataRow2): defined is FALSE for the
\* return value undefined; calls lists the comparators invoked
sortComparer(sortColumn, row1, row2) ==
    IF Has(sortColumn, "sortCol")
    THEN LET columnDef == sortColumn["sortCol"]
             sortDirection == IF sortColumn["sortAsc"] THEN SortDirectionNumber.asc
                              ELSE SortDirectionNumber.desc
             fieldType == IF Has(columnDef, "type") THEN columnDef["type"] ELSE "string"
             value1 == row1[QueryFieldName(columnDef)]
             value2 == row2[QueryFieldName(columnDef)]
         IN  IF Has(columnDef, "sortComparer")
             THEN LET customSortResult ==
                          CustomComparer(columnDef["sortComparer"], value1, value2, sortDirection)
                  IN  [defined |-> customSortResult # SortDirectionNumber.neutral,
                       value |-> customSortResult, calls |-> <<"custom">>]
             ELSE LET sortResult ==
                          sortByFieldType(fieldType, value1, value2, sortDirection)
                  IN  [defined |-> sortResult # SortDirectionNumber.neutral,
                       value |-> sortResult, calls |-> <<"generic">>]
    ELSE [defined |-> FALSE, value |-> 0, calls |-> <<>>]

RECURSIVE ComparersFrom(_, _, _, _, _)
\* the for..of loop of sortComparers from directive i on; calls collects
\* <<directive position, comparator invoked>>
ComparersFrom(columns, i, row1, row2, calls) ==
    IF i > Len(columns)
    THEN [value |-> SortDirectionNumber.neutral, calls |-> calls]
    ELSE LET result == sortComparer(columns[i], row1, row2)
             calls1 == calls \o [k \in 1..Len(result.calls) |-> <<i, result.calls[k]>>]
         IN  IF result.defined
             THEN [value |-> result.value, calls |-> calls1]
             ELSE ComparersFrom(columns, i + 1, row1, row2, calls1)

RECURSIVE ComparersLastWins(_, _, _, _, _)
\* sortComparers that keeps going after a non-neutral directive and lets
\* the last non-neutral one decide
ComparersLastWins(columns, i, row1, row2, acc) ==
    IF i > Len(columns) THEN acc
    ELSE LET result == sortComparer(columns[i], row1, row2)
             calls1 == acc.calls \o [k \in 1..Len(result.calls) |-> <<i, result.calls[k]>>]
         IN  ComparersLastWins(columns, i + 1, row1, row2,
                 [value |-> IF result.defined THEN result.value ELSE acc.value,
                  calls |-> calls1])

sortComparersLastWins(columns, row1, row2) ==
    ComparersLastWins(columns, 1, row1, row2,
        [value |-> SortDirectionNumber.neutral, calls |-> <<>>])

sortComparers(columns, row1, row2) == ComparersFrom(columns, 1, row1, row2, <<>>)

\* the comparator handed to Array.prototype.sort by sortTreeChild:
\* (a, b) => this.sortComparer(sortColumn, a, b) ?? SortDirectionNumber.neutral
TreeComparator(sortColumn, a, b) ==
    LET r == sortComparer(sortColumn, a, b)
    IN  IF r.defined THEN r.value ELSE SortDirectionNumber.neutral

RECURSIVE InsertInOrder(_, _, _)
\* x placed after every element that the comparator does not rate above it
InsertInOrder(sorted, x, sortColumn) ==
    IF sorted = <<>> THEN <<x>>
    ELSE IF TreeComparator(sortColumn, Head(sorted), x) > 0
         THEN <<x>> \o sorted
         ELSE <<Head(sorted)>> \o InsertInOrder(Tail(sorted), x, sortColumn)

RECURSIVE ArraySortFrom(_, _, _, _)
ArraySortFrom(array, i, sorted, sortColumn) ==
    IF i > Len(array) THEN sorted
    ELSE ArraySortFrom(array, i + 1, InsertInOrder(sorted, array[i], sortColumn), sortColumn)

\* treeArray.sort(comparator): Array.prototype.sort is stable, elements the
\* comparator rates equal keep their order
ArraySort(treeArray, sortColumn) == ArraySortFrom(treeArray, 1, <<>>, sortColumn)

RECURSIVE sortTreeChild(_, _)
\* sortTreeChild that sorts the array it is given and leaves every children
\* array as it is
sortTreeChildTopOnly(treeArray, sortColumn) == ArraySort(treeArray, sortColumn)

\* sortTreeChild(treeArray, sortColumn, treeLevel): the array is sorted,
\* then the children array of each of its items, recursively
sortTreeChild(treeArray, sortColumn) ==
    LET sorted == ArraySort(treeArray, sortColumn)
    IN  [i \in 1..Len(sorted) |->
            IF Has(sorted[i], "children")
            THEN SetProp(sorted[i], "children",
                     sortTreeChild(sorted[i]["children"], sortColumn))
            ELSE sorted[i]]

RECURSIVE sortTreeChildSteps(_, _, _)
RECURSIVE SortChildrenFrom(_, _, _, _)
\* the for..of loop of sortTreeChild from item i on, over the array as the
\* sort has left it: the sorts made by the recursive calls, in the order
\* in which they are made
SortChildrenFrom(treeArray, i, sortColumn, treeLevel) ==
    IF i > Len(treeArray) THEN <<>>
    ELSE (IF Has(treeArray[i], "children")
          THEN sortTreeChildSteps(treeArray[i]["children"], sortColumn, treeLevel + 1)
          ELSE <<>>)
         \o SortChildrenFrom(treeArray, i + 1, sortColumn, treeLevel)

\* sortTreeChild that walks the children of the array as it was given and
\* sorts the array last
sortTreeChildStepsChildrenFirst(treeArray, sortColumn, treeLevel) ==
    SortChildrenFrom(treeArray, 1, sortColumn, treeLevel)
    \o <<[treeLevel |-> treeLevel, array |-> ArraySort(treeArray, sortColumn)]>>

\* the calls of treeArray.sort that sortTreeChild(treeArray, sortColumn,
\* treeLevel) makes, in the order in which they complete: each with its
\* tree level and the array as that sort leaves it
sortTreeChildSteps(treeArray, sortColumn, treeLevel) ==
    LET sorted == ArraySort(treeArray, sortColumn)
    IN  <<[treeLevel |-> treeLevel, array |-> sorted]>>
        \o SortChildrenFrom(sorted, 1, sortColumn, treeLevel)


RECURSIVE SortTreeDataFrom(_, _, _)
\* for (const sortColumn of sortColumns) this.sortTreeChild(treeArray, sortColumn, 0)
SortTreeDataFrom(treeArray, columns, i) ==
    IF i > Len(columns) THEN treeArray
    ELSE SortTreeDataFrom(sortTreeChild(treeArray, columns[i]), columns, i + 1)

sortTreeData(treeArray, columns) == SortTreeDataFrom(treeArray, columns, 1)

\* flattenToParentChildArray(hierarchicalDataset, treeDataOptions) of
\* './utilities': the toFlat conversion, tree level numbers added
flattenToParentChildArray(hierarchicalDataset) ==
    convertHierarchicalViewToFlatArray(hierarchicalDataset)

\* sortHierarchicalDataset(hierarchicalDataset, sortColumns): the array is
\* sorted in place and returned with its flattening
sortHierarchicalDataset(hierarchicalDataset, columns) ==
    LET sorted == sortTreeData(hierarchicalDataset, columns)
    IN  [hierarchical |-> sorted, flat |-> flattenToParentChildArray(sorted)]


\* ------------------------------------------------------ sort-side inputs
Values == 0..MaxVal
Rows == [colA : Values, colB : Values]

ColumnDef(id, field) == [id |-> id, field |-> field, type |-> "number"]
ColumnDefs ==
    {ColumnDef("colA", "colA"), ColumnDef("colB", "colB")}
    \cup {SetProp(ColumnDef("colC", "colA"), "sortComparer", c) : c \in CustomComparerNames}

ColumnSorts ==
    {[columnId |-> c["id"], sortAsc |-> asc, sortCol |-> c] : c \in ColumnDefs, asc \in BOOLEAN}
    \cup {[columnId |-> "colA", sortAsc |-> TRUE]}

ColumnSortLists == UNION {[1..n -> ColumnSorts] : n \in 0..MaxDirectives}

\* ------------------------------------------------- tree sort: inputs
\* directives of a multi-column sort of the tree grid: one per column
TreeColumnSorts ==
    {[columnId |-> c, sortAsc |-> asc, sortCol |-> ColumnDef(c, c)] :
        c \in {"colA", "colB"}, asc \in BOOLEAN}

TreeColumnSortLists ==
    {l \in UNION {[1..n -> TreeColumnSorts] : n \in 0..MaxDirectives} :
        \A i, j \in 1..Len(l) : l[i]["columnId"] = l[j]["columnId"] => i = j}

RECURSIVE ValuedNode(_, _, _, _, _)
\* node k of a forest given by a parent vector in pre-order numbering; its
\* identifier is k, colA is a number and colB a 0/1 flag
ValuedNode(n, pv, va, vb, k) ==
    LET kids == SortedSeq({j \in (k + 1)..n : pv[j] = k})
        a == [id |-> k, colA |-> va[k], colB |-> vb[k]]
    IN  IF kids # <<>>
        THEN SetProp(a, "children",
                 [i \in 1..Len(kids) |-> ValuedNode(n, pv, va, vb, kids[i])])
        ELSE a

\* the forests of n nodes with sortable values, colB drawn from flags:
\* every shape once
ValuedForestsOver(n, flags) ==
    { LET roots == SortedSeq({j \in 1..n : pv[j] = 0})
      IN  [i \in 1..Len(roots) |-> ValuedNode(n, pv, va, vb, roots[i])] :
        pv \in {f \in [1..n -> 0..n] :
                   \A k \in 1..n : /\ f[k] < k
                                   /\ \A j \in (f[k] + 1)..(k - 1) : f[j] >= f[k]},
        va \in [1..n -> Values], vb \in [1..n -> flags] }

ValuedForests(n) == ValuedForestsOver(n, {0, 1})

\* ------------------- filter conditions (example22.cy.ts, lines 155-280)
DateFieldTypes ==
    {
     "date", "dateIso", "dateUtc", "dateTime", "dateTimeIso",
     "dateTimeIsoAmPm", "dateTimeIsoAM_PM", "dateTimeShortIso", "dateEuro",
     "dateEuroShort", "dateTimeShortEuro", "dateTimeEuro",
     "dateTimeEuroAmPm", "dateTimeEuroAM_PM", "dateTimeEuroShort",
     "dateTimeEuroShortAmPm", "dateTimeEuroShortAM_PM", "dateUs",
     "dateUsShort", "dateTimeShortUs", "dateTimeUs", "dateTimeUsAmPm",
     "dateTimeUsAM_PM", "dateTimeUsShort", "dateTimeUsShortAmPm",
     "dateTimeUsShortAM_PM" }
NumberFieldTypes == {"integer", "float", "number"}
TextFieldTypes == {"string", "text", "password", "readonly"}
GeneralVariableType == {"boolean", "date", "number", "object", "text"}

\* the switch of getGeneralTypeByFieldType without its default label
getGeneralTypeWithoutDefault(fieldType) ==
    CASE fieldType = "boolean" -> "boolean"
      [] fieldType \in DateFieldTypes -> "date"
      [] fieldType \in NumberFieldTypes -> "number"
      [] fieldType = "object" -> "object"
      [] fieldType \in TextFieldTypes -> "text"
      [] OTHER -> "undefined"

getGeneralTypeByFieldType(fieldType) ==
    CASE fieldType = "boolean" -> "boolean"
      [] fieldType \in DateFieldTypes -> "date"
      [] fieldType \in NumberFieldTypes -> "number"
      [] fieldType = "object" -> "object"
      [] OTHER -> "text"

\* utilities.ts, mapOperatorByFieldType(fieldType): the switch names string
\* and unknown for OperatorType.contains; every other label shares the
\* default, OperatorType.equal
mapOperatorByFieldType(fieldType) ==
    CASE fieldType \in {"string", "unknown"} -> "contains"
      [] OTHER -> "equal"


\* a string is the sequence of its characters
LowerLetters == <<"a", "b", "c", "d", "e", "f", "g", "h", "i", "j", "k", "l", "m", "n", "o", "p", "q", "r", "s", "t", "u", "v", "w", "x", "y", "z">>
UpperLetters == <<"A", "B", "C", "D", "E", "F", "G", "H", "I", "J", "K", "L", "M", "N", "O", "P", "Q", "R", "S", "T", "U", "V", "W", "X", "Y", "Z">>

UpperChar(c) ==
    IF \E k \in 1..26 : LowerLetters[k] = c
    THEN UpperLetters[CHOOSE k \in 1..26 : LowerLetters[k] = c]
    ELSE c
LowerChar(c) ==
    IF \E k \in 1..26 : UpperLetters[k] = c
    THEN LowerLetters[CHOOSE k \in 1..26 : UpperLetters[k] = c]
    ELSE c

\* String.prototype.toUpperCase
toUpperCase(str) == [k \in 1..Len(str) |-> UpperChar(str[k])]

OpIN == <<"I", "N">>
OpNIN == <<"N", "I", "N">>
OpNOT_IN == <<"N", "O", "T", "_", "I", "N">>
OpIN_CONTAINS == <<"I", "N", "_", "C", "O", "N", "T", "A", "I", "N", "S">>
OpNIN_CONTAINS == <<"N", "I", "N", "_", "C", "O", "N", "T", "A", "I", "N", "S">>
OpNOT_IN_CONTAINS == <<"N", "O", "T", "_", "I", "N", "_", "C", "O", "N", "T", "A", "I", "N", "S">>
CollectionOperators ==
    {OpIN, OpNIN, OpNOT_IN, OpIN_CONTAINS, OpNIN_CONTAINS, OpNOT_IN_CONTAINS}

\* the evaluator the switch on the general type calls
CategoryEvaluator(generalType) ==
    CASE generalType = "boolean" -> "executeBooleanFilterCondition"
      [] generalType = "date" -> "executeAssociatedDateCondition"
      [] generalType = "number" -> "executeNumberFilterCondition"
      [] generalType = "object" -> "executeObjectFilterCondition"
      [] OTHER -> "executeStringFilterCondition"

\* what the evaluator named returns for these options: the evaluators are
\* collaborators, their verdicts are part of the input
Evaluate(options, evaluator) ==
    IF evaluator = "executeCollectionSearchFilterCondition"
    THEN options["collectionVerdict"] ELSE options["categoryVerdict"]

\* ...parsedSearchTerms in an argument list.  parsedSearchTerms is named by
\* its shape: "undefined", a single "number", a single "string" or an
\* "array".  undefined has neither an iterator nor a length: the spread
\* throws a TypeError in every build.  A single number throws where the
\* spread uses the iterator protocol (build "iterator": an ES2015 target,
\* or the ES5 helper that sizes an array from the lengths) and spreads to
\* nothing where the ES5 helper copies length elements (build "copy").  A
\* string and an array are spread without an error.
SpreadThrows(parsedSearchTerms, build) ==
    \/ parsedSearchTerms = "undefined"
    \/ parsedSearchTerms = "number" /\ build = "iterator"

\* the result of executeMappedCondition once the evaluator is known: the
\* date and number cases spread parsedSearchTerms, the others test
\* Array.isArray(parsedSearchTerms) first
MappedResult(options, evaluator, parsedSearchTerms, build) ==
    IF evaluator \in {"executeAssociatedDateCondition", "executeNumberFilterCondition"}
       /\ SpreadThrows(parsedSearchTerms, build)
    THEN [status |-> "TypeError", invoked |-> <<>>]
    ELSE [status |-> "returned", value |-> Evaluate(options, evaluator),
          invoked |-> <<evaluator>>]

\* executeMappedCondition comparing options.operator as it was given
executeMappedConditionCaseSensitive(options, parsedSearchTerms, build) ==
    LET operator == IF Has(options, "operator") THEN options["operator"] ELSE <<"undefined">>
        evaluator == IF operator \in CollectionOperators
                     THEN "executeCollectionSearchFilterCondition"
                     ELSE CategoryEvaluator(getGeneralTypeByFieldType(options["fieldType"]))
    IN  MappedResult(options, evaluator, parsedSearchTerms, build)

\* executeMappedCondition(options, parsedSearchTerms): the outcome, the
\* value returned and the evaluators invoked; options.operator?.toUpperCase()
\* of an absent operator is undefined, which equals none of the six names
executeMappedCondition(options, parsedSearchTerms, build) ==
    LET operator == IF Has(options, "operator") THEN toUpperCase(options["operator"])
                    ELSE <<"undefined">>
        evaluator == IF operator \in CollectionOperators
                     THEN "executeCollectionSearchFilterCondition"
                     ELSE CategoryEvaluator(getGeneralTypeByFieldType(options["fieldType"]))
    IN  MappedResult(options, evaluator, parsedSearchTerms, build)

\* the parser getParsedSearchTermsByFieldType picks for a field type
getParsedSearchTermsByFieldType(fieldType) ==
    LET generalType == getGeneralTypeByFieldType(fieldType)
    IN  [generalType |-> generalType,
         parser |-> CASE generalType = "boolean" -> "getFilterParsedBoolean"
                      [] generalType = "date" -> "getFilterParsedDates"
                      [] generalType = "number" -> "getFilterParsedNumbers"
                      [] generalType = "object" -> "getFilterParsedObjectResult"
                      [] generalType = "text" -> "getFilterParsedText"
                      [] OTHER -> "none"]

\* ---------------------------------------------------- filter-side inputs
\* the members of the FieldType enumeration, a type outside of it, and
\* "undefined" for a column without a type
EnumeratedFieldTypes ==
    {"boolean", "object", "unknown"} \cup DateFieldTypes \cup NumberFieldTypes
    \cup TextFieldTypes
FieldTypeInputs == EnumeratedFieldTypes \cup {"undefined", "somethingElse"}

toLowerCase(str) == [k \in 1..Len(str) |-> LowerChar(str[k])]
Capitalised(str) ==
    [k \in 1..Len(str) |-> IF k = 1 THEN UpperChar(str[k]) ELSE LowerChar(str[k])]
Alternating(str) ==
    [k \in 1..Len(str) |-> IF k % 2 = 0 THEN UpperChar(str[k]) ELSE LowerChar(str[k])]

OtherOperators ==
    {<<"E", "Q">>, <<"e", "q">>, <<"C", "o", "n", "t", "a", "i", "n", "s">>, <<"<", ">">>, <<>>,
     <<"I", "N", "N">>, <<"N">>, <<"I", "N", " ">>, <<"N", "O", "T", " ", "I", "N">>, <<"C", "O", "N", "T", "A", "I", "N", "S">>}

OperatorInputs ==
    UNION {{o, toLowerCase(o), Capitalised(o), Alternating(o)} : o \in CollectionOperators}
    \cup OtherOperators

FilterOptions ==
    {[operator |-> o, fieldType |-> t, collectionVerdict |-> cv, categoryVerdict |-> gv] :
        o \in OperatorInputs, t \in FieldTypeInputs, cv \in BOOLEAN, gv \in BOOLEAN}
    \cup {[fieldType |-> t, collectionVerdict |-> cv, categoryVerdict |-> gv] :
        t \in FieldTypeInputs, cv \in BOOLEAN, gv \in BOOLEAN}

\* the shapes of the parsed search terms handed over with the options
ParsedSearchTerms == {"undefined", "number", "string", "array"}
\* how the build spreads a value that is not an array
Builds == {"iterator", "copy"}

\* ------------------------------------------------ utilities.ts: parseBoolean
\* An input is a record with its type and, by type, the boolean flag, the
\* number, or the chars of the string; null and undefined have the type only.
DigitChars == <<"0", "1", "2", "3", "4", "5", "6", "7", "8", "9">>

RECURSIVE NumberToString(_)
\* the decimal digits of a natural number
NumberToString(n) ==
    IF n < 10 THEN <<DigitChars[n + 1]>>
    ELSE NumberToString(n \div 10) \o <<DigitChars[(n % 10) + 1]>>

\* input + '': the string conversion of the input
StringOf(input) ==
    CASE input.type = "string" -> input.chars
      [] input.type = "boolean" ->
             IF input.flag THEN <<"t", "r", "u", "e">> ELSE <<"f", "a", "l", "s", "e">>
      [] input.type = "number" -> NumberToString(input.number)
      [] input.type = "null" -> <<"n", "u", "l", "l">>
      [] OTHER -> <<"u", "n", "d", "e", "f", "i", "n", "e", "d">>

\* /(true|1)/i.test(str): some position of str starts "true", letters in
\* either case, or holds "1"
RegexTrueOr1(str) ==
    \E i \in 1..Len(str) :
        \/ str[i] = "1"
        \/ /\ i + 3 <= Len(str)
           /\ toLowerCase(SubSeq(str, i, i + 3)) = <<"t", "r", "u", "e">>

parseBoolean(input) == RegexTrueOr1(StringOf(input))

\* ------------------------------------------------- parseBoolean: inputs
MaxStrLen == 4      \* characters of a string handed to parseBoolean
MaxNumber == 11     \* numbers handed to parseBoolean are 0..MaxNumber

ParseAlphabet == {"t", "r", "u", "e", "T", "R", "1", "0", "n"}

ParseInputs(n) ==
    {[type |-> "string", chars |-> s] : s \in [1..n -> ParseAlphabet]}

OtherParseInputs ==
    {[type |-> "boolean", flag |-> b] : b \in BOOLEAN}
    \cup {[type |-> "number", number |-> k] : k \in 0..MaxNumber}
    \cup {[type |-> "null"], [type |-> "undefined"]}
    \cup {[type |-> "string", chars |-> s] :
             s \in {<<"u", "n", "t", "r", "u", "e">>, <<"T", "R", "U", "E">>,
                    <<"f", "a", "l", "s", "e">>, <<"y", "e", "s">>}}

\* ------------------------------------- sort.service.ts: the service itself
\* The service state is svc (_grid set or not, _isBackendGrid, the handlers
\* subscribed to grid.onSort through _eventHandler in the order of their
\* subscription, _currentLocalSorters); grid is the grid object
\* with its options, column definitions, sort icons (getSortColumns) and
\* whether getData() yields a data view.  A method takes and returns a
\* record r: the service, the grid and the shared hierarchical dataset as
\* the call has left them so far, the effects on collaborators in the order
\* they happened, and status "returned" or the error thrown.  An optional
\* argument is a sequence: empty when it is undefined, else the one value.
\* svc.hasHierarchical says that sharedService.hierarchicalDataset is an
\* array (the variable hierarchical).
SortDirection == [ASC |-> <<"A", "S", "C">>, DESC |-> <<"D", "E", "S", "C">>]

NoService == [grid |-> FALSE, isBackendGrid |-> FALSE, subscribed |-> <<>>,
              currentLocalSorters |-> <<>>, hasHierarchical |-> FALSE]
\* gridOptions.backendServiceApi: present is FALSE when the options have none
NoApi == [present |-> FALSE, process |-> FALSE, service |-> FALSE, preProcess |-> FALSE]
\* gridOptions.treeDataOptions and its initialSort: present is FALSE when
\* the options have none
NoInitialSort == [present |-> FALSE, columnId |-> "", direction |-> <<>>]
NoTreeDataOptions == [present |-> FALSE, columnId |-> "", initialSort |-> NoInitialSort]
NoOptions == [enableSorting |-> FALSE, enableTreeData |-> FALSE, backendServiceApi |-> NoApi,
              treeDataOptions |-> NoTreeDataOptions]
NoGrid == [options |-> NoOptions, columns |-> <<>>, sortColumns |-> <<>>, dataView |-> FALSE]

Fx(r, effect) == [r EXCEPT !.fx = Append(@, effect)]
Throw(r, error) == [r EXCEPT !.status = error]

\* the getter _gridOptions: {} when no grid is bound
GridOptions(r) == IF r.svc.grid THEN r.grid.options ELSE NoOptions
\* the getter _columnDefinitions: [] when no grid is bound
ColumnDefinitions(r) == IF r.svc.grid THEN r.grid.columns ELSE <<>>

\* emitSortChanged(sender, currentLocalSorters?)
emitSortChanged(r, sender, currentLocalSorters) ==
    IF sender = "remote" /\ GridOptions(r).backendServiceApi.present
    THEN Fx(r, <<"publish", "onSortChanged",
                 IF GridOptions(r).backendServiceApi.service
                 THEN "backendService.getCurrentSorters()" ELSE <<>> >>)
    ELSE IF sender = "local"
    THEN LET r1 == IF currentLocalSorters # <<>>
                   THEN [r EXCEPT !.svc.currentLocalSorters = currentLocalSorters[1]]
                   ELSE r
         IN  Fx(r1, <<"publish", "onSortChanged", r1.svc.currentLocalSorters>>)
    ELSE r

\* if (emit) { this.emitSortChanged(sender, currentLocalSorters) }, a
\* statement that is not reached when the statements before it threw
EmitWhen(emit, r, sender, currentLocalSorters) ==
    IF r.status = "returned" /\ emit THEN emitSortChanged(r, sender, currentLocalSorters) ELSE r

\* onBackendSortChanged that runs preProcess before it looks at the API
onBackendSortChangedPreProcessFirst(r, args) ==
    IF args = <<>> \/ ~Has(args[1], "grid") THEN Throw(r, "Error")
    ELSE LET backendApi == r.grid.options.backendServiceApi
             r1 == IF backendApi.present /\ backendApi.preProcess
                   THEN Fx(r, <<"backendApi.preProcess">>) ELSE r
         IN  IF ~backendApi.present \/ ~backendApi.process \/ ~backendApi.service
             THEN Throw(r1, "Error")
             ELSE Fx(Fx(r1, <<"backendService.processOnSortChanged", args[1]>>),
                     <<"executeBackendCallback">>)

\* onBackendSortChanged(event, args): args is optional, and an object that
\* may lack the property grid; args.grid is the grid of this model
onBackendSortChanged(r, args) ==
    IF args = <<>> \/ ~Has(args[1], "grid") THEN Throw(r, "Error")
    ELSE LET backendApi == r.grid.options.backendServiceApi
         IN  IF ~backendApi.present \/ ~backendApi.process \/ ~backendApi.service
             THEN Throw(r, "Error")
             ELSE LET r1 == IF backendApi.preProcess
                            THEN Fx(r, <<"backendApi.preProcess">>) ELSE r
                  IN  Fx(Fx(r1, <<"backendService.processOnSortChanged", args[1]>>),
                         <<"executeBackendCallback">>)

\* the sorters onLocalSortChanged emits for its sort columns
EmittedSorters(columns) ==
    [i \in 1..Len(columns) |->
        [columnId |-> IF Has(columns[i], "sortCol") THEN columns[i]["sortCol"]["id"] ELSE "id",
         direction |-> IF columns[i]["sortAsc"] THEN SortDirection.ASC ELSE SortDirection.DESC]]

\* the tree branch of onLocalSortChanged: the sorted hierarchy replaces
\* sharedService.hierarchicalDataset and its flat form goes to the data view
SetSortedItems(r, datasetSortResult) ==
    Fx([r EXCEPT !.h = datasetSortResult.hierarchical],
       <<"dataView.setItems", datasetSortResult.flat>>)

\* onLocalSortChanged that hands every sort to the data view's own sort
onLocalSortChangedByDataView(r, columns, forceReSort, emitChanged) ==
    IF ~r.svc.grid THEN Throw(r, "TypeError")
    ELSE IF ~r.grid.dataView THEN r
    ELSE LET r1 == IF forceReSort /\ ~GridOptions(r).enableTreeData
                   THEN Fx(r, <<"dataView.reSort">>) ELSE r
         IN  EmitWhen(emitChanged,
                      Fx(Fx(r1, <<"dataView.sort", columns>>), <<"grid.invalidate">>),
                      "local", <<EmittedSorters(columns)>>)

\* onLocalSortChanged(grid, sortColumns, forceReSort, emitSortChanged) with
\* grid = this._grid; r.h is sharedService.hierarchicalDataset
onLocalSortChanged(r, columns, forceReSort, emitChanged) ==
    IF ~r.svc.grid THEN Throw(r, "TypeError")
    ELSE IF ~r.grid.dataView THEN r
    ELSE LET isTreeDataEnabled == GridOptions(r).enableTreeData
             r1 == IF forceReSort /\ ~isTreeDataEnabled
                   THEN Fx(r, <<"dataView.reSort">>) ELSE r
             r2 == IF isTreeDataEnabled /\ r.svc.hasHierarchical
                   THEN SetSortedItems(r1, sortHierarchicalDataset(r.h, columns))
                   ELSE Fx(r1, <<"dataView.sort", columns>>)
         IN  EmitWhen(emitChanged, Fx(r2, <<"grid.invalidate">>),
                      "local", <<EmittedSorters(columns)>>)

\* sortLocalGridByDefaultSortFieldId(): the options name no default sort
\* field and no identifier property, so the field is 'id'
sortLocalGridByDefaultSortFieldId(r) ==
    LET sortCol == [id |-> "id", field |-> "id"]
    IN  onLocalSortChanged(r, <<[columnId |-> sortCol.id, sortAsc |-> TRUE, sortCol |-> sortCol,
                                 clearSortTriggered |-> TRUE]>>, FALSE, FALSE)

\* this._grid.setSortColumns(columns)
SetSortColumns(r, columns) ==
    Fx([r EXCEPT !.grid.sortColumns = columns], <<"grid.setSortColumns", columns>>)

\* the last statement of loadGridSorters, not reached when the sort threw
ThenSetSortColumns(r, columns) ==
    IF r.status = "returned" THEN SetSortColumns(r, columns) ELSE r

\* the last two statements of clearSorting, not reached when the
\* statements before them threw
ThenSortCleared(r) ==
    IF r.status = "returned"
    THEN Fx([r EXCEPT !.svc.currentLocalSorters = <<>>], <<"publish", "onSortCleared", TRUE>>)
    ELSE r

\* the {columnId, direction} kept for the sort columns that carry a sortCol
KeptSorters(columns) ==
    LET kept == SelectSeq(columns, LAMBDA c : Has(c, "sortCol"))
    IN  [i \in 1..Len(kept) |->
            [columnId |-> kept[i]["sortCol"]["id"],
             direction |-> IF kept[i]["sortAsc"] THEN SortDirection.ASC ELSE SortDirection.DESC]]

\* the sort columns of an onSort event: args.sortCols of a multi-column
\* sort, one column made of args.sortCol and args.sortAsc otherwise
EventSortColumns(args) ==
    IF args["multiColumnSort"] THEN args["sortCols"]
    ELSE <<[columnId |-> args["sortCol"]["id"], sortAsc |-> args["sortAsc"],
            sortCol |-> args["sortCol"]]>>

\* handleLocalOnSort that adds the new sorters to the earlier ones
handleLocalOnSortKeepingEarlier(r, args) ==
    LET columns == EventSortColumns(args)
        r1 == [r EXCEPT !.svc.currentLocalSorters = @ \o KeptSorters(columns)]
    IN  EmitWhen(TRUE, onLocalSortChanged(r1, columns, FALSE, FALSE), "local", <<>>)

\* handleLocalOnSort(_e, args)
handleLocalOnSort(r, args) ==
    LET columns == EventSortColumns(args)
        r1 == [r EXCEPT !.svc.currentLocalSorters = KeptSorters(columns)]
    IN  EmitWhen(TRUE, onLocalSortChanged(r1, columns, FALSE, FALSE), "local", <<>>)

\* clearSorting whose last two statements are inside the first if
clearSortingWhenBound(r, triggerQueryEvent) ==
    IF r.svc.grid /\ r.grid.dataView
    THEN LET r1 == SetSortColumns(r, <<>>)
         IN  ThenSortCleared(
                 IF triggerQueryEvent /\ r.svc.isBackendGrid
                 THEN onBackendSortChanged(r1, <<[grid |-> TRUE, multiColumnSort |-> TRUE,
                          sortCols |-> <<>>, clearSortTriggered |-> TRUE]>>)
                 ELSE IF triggerQueryEvent /\ Len(ColumnDefinitions(r)) > 0
                 THEN sortLocalGridByDefaultSortFieldId(r1)
                 ELSE r1)
    ELSE r

\* clearSorting(triggerQueryEvent): a backend service that is present has
\* the clearSorters method of its interface
clearSorting(r, triggerQueryEvent) ==
    LET bound == r.svc.grid /\ r.grid.dataView
        r1 == IF bound THEN SetSortColumns(r, <<>>) ELSE r
        backendApi == GridOptions(r).backendServiceApi
    IN  ThenSortCleared(
            IF ~bound THEN r1
            ELSE IF triggerQueryEvent
            THEN IF r.svc.isBackendGrid
                 THEN onBackendSortChanged(r1, <<[grid |-> TRUE, multiColumnSort |-> TRUE,
                          sortCols |-> <<>>, clearSortTriggered |-> TRUE]>>)
                 ELSE IF Len(ColumnDefinitions(r)) > 0
                      THEN sortLocalGridByDefaultSortFieldId(r1)
                      ELSE r1
            ELSE IF r.svc.isBackendGrid /\ backendApi.present /\ backendApi.service
                 THEN Fx(r1, <<"backendService.clearSorters">>)
                 ELSE r1)

\* the grid columns that the sorters name, in the order of the sorters:
\* this._columnDefinitions.find((col) => col.id === sorter.columnId)
FoundSorters(r, sorters) ==
    SelectSeq(sorters, LAMBDA s :
        \E k \in 1..Len(ColumnDefinitions(r)) : ColumnDefinitions(r)[k]["id"] = s["columnId"])

\* loadGridSorters(sorters)
loadGridSorters(r, sorters) ==
    LET found == FoundSorters(r, sorters)
        gridColumn(s) == ColumnDefinitions(r)[CHOOSE k \in 1..Len(ColumnDefinitions(r)) :
            /\ ColumnDefinitions(r)[k]["id"] = s["columnId"]
            /\ \A j \in 1..(k - 1) : ColumnDefinitions(r)[j]["id"] # s["columnId"]]
        sortCols == [i \in 1..Len(found) |->
            [columnId |-> gridColumn(found[i])["id"],
             sortAsc |-> toUpperCase(found[i]["direction"]) = SortDirection.ASC,
             sortCol |-> gridColumn(found[i])]]
        r1 == [r EXCEPT !.svc.currentLocalSorters = [i \in 1..Len(found) |->
                  [columnId |-> gridColumn(found[i])["id"],
                   direction |-> toUpperCase(found[i]["direction"])]]]
    IN  ThenSetSortColumns(onLocalSortChanged(r1, sortCols, FALSE, FALSE),
            [i \in 1..Len(sortCols) |->
                [columnId |-> sortCols[i]["columnId"], sortAsc |-> sortCols[i]["sortAsc"]]])

\* what updateSorting does once enableSorting has been found set
UpdateSortingBody(r, sorters, emitChangedEvent, triggerBackendQuery) ==
    LET backendApi == GridOptions(r).backendServiceApi
    IN  EmitWhen(emitChangedEvent,
                 IF backendApi.present
                 THEN IF backendApi.service
                      THEN LET u == Fx(r, <<"backendService.updateSorters", sorters>>)
                           IN  IF triggerBackendQuery THEN Fx(u, <<"refreshBackendDataset">>) ELSE u
                      ELSE r
                 ELSE loadGridSorters(r, sorters),
                 IF backendApi.present THEN "remote" ELSE "local", <<>>)

\* updateSorting that finds enableSorting missing after the sorters are loaded
updateSortingCheckingLast(r, sorters, emitChangedEvent, triggerBackendQuery) ==
    LET r1 == UpdateSortingBody(r, sorters, emitChangedEvent, triggerBackendQuery)
    IN  IF ~GridOptions(r).enableSorting THEN Throw(r1, "Error") ELSE r1

\* updateSorting(sorters, emitChangedEvent, triggerBackendQuery): a backend
\* service that is present has the updateSorters method of its interface
updateSorting(r, sorters, emitChangedEvent, triggerBackendQuery) ==
    IF ~GridOptions(r).enableSorting THEN Throw(r, "Error")
    ELSE UpdateSortingBody(r, sorters, emitChangedEvent, triggerBackendQuery)

\* disableAllSortingCommands(isDisabling): `typeof col.sortable !== undefined`
\* compares a string with undefined and is always true, so every column
\* gets the flag; the columns carry no header menu and the options no
\* grid menu
disableAllSortingCommands(r, isDisabling) ==
    IF ~r.svc.grid THEN Throw(r, "TypeError")
    ELSE [r EXCEPT !.grid.columns =
             [k \in 1..Len(@) |-> SetProp(@[k], "sortable", ~isDisabling)]]

\* disableSortFunctionality after its optional clearSorting()
DisableOrEnable(r, isSortingDisabled) ==
    IF r.status # "returned" THEN r
    ELSE LET r1 == IF isSortingDisabled THEN [r EXCEPT !.svc.subscribed = <<>>] ELSE r
             r2 == disableAllSortingCommands(r1, isSortingDisabled)
             r3 == IF isSortingDisabled THEN r2
                   ELSE [r2 EXCEPT !.svc.subscribed = Append(@, "handleLocalOnSort")]
         IN  IF r2.status # "returned" THEN r2
             ELSE Fx(Fx(r3, <<"grid.setOptions", r3.grid.options.enableSorting>>),
                     <<"grid.setColumns", r3.grid.columns>>)

\* disableSortFunctionality(isSortingDisabled, clearSortingWhenDisabled):
\* this._gridOptions is the options object of the grid, or a fresh {}
\* when no grid is bound
disableSortFunctionality(r, isSortingDisabled, clearSortingWhenDisabled) ==
    LET prevSorting == GridOptions(r).enableSorting
        newSorting == ~prevSorting
        r0 == IF r.svc.grid THEN [r EXCEPT !.grid.options.enableSorting = newSorting] ELSE r
    IN  DisableOrEnable(IF isSortingDisabled /\ clearSortingWhenDisabled
                        THEN clearSorting(r0, TRUE) ELSE r0,
                        isSortingDisabled)

\* what toggleSortFunctionality asks disableSortFunctionality to do:
\* previousSorting is undefined when no grid is bound, and the parameter
\* default isSortingDisabled = true applies to undefined
ToggledDisabling(r) == IF r.svc.grid THEN r.grid.options.enableSorting ELSE TRUE

\* toggleSortFunctionality(clearSortingOnDisable)
toggleSortFunctionality(r, clearSortingOnDisable) ==
    disableSortFunctionality(r, ToggledDisabling(r), clearSortingOnDisable)

\* dispose(): unsubscribeAll(); the service has no httpCancelRequests$
dispose(r) == [r EXCEPT !.svc.subscribed = <<>>]

\* bindBackendOnSort(grid)
bindBackendOnSort(r) ==
    [r EXCEPT !.svc.isBackendGrid = TRUE, !.svc.grid = TRUE,
              !.svc.subscribed = Append(@, "onBackendSortChanged")]

\* the sorter of the initial sort of a tree grid: ascending by the column
\* with the tree data, or the column and the direction of initialSort
InitialTreeSorter(treeDataOptions) ==
    IF treeDataOptions.initialSort.present /\ treeDataOptions.initialSort.columnId # ""
    THEN [columnId |-> treeDataOptions.initialSort.columnId,
          direction |-> toUpperCase(IF treeDataOptions.initialSort.direction = <<>>
                                    THEN SortDirection.ASC
                                    ELSE treeDataOptions.initialSort.direction)]
    ELSE [columnId |-> treeDataOptions.columnId, direction |-> SortDirection.ASC]

\* processTreeDataInitialSort()
processTreeDataInitialSort(r) ==
    IF /\ GridOptions(r).enableTreeData /\ GridOptions(r).treeDataOptions.present
       /\ \E k \in 1..Len(ColumnDefinitions(r)) :
              ColumnDefinitions(r)[k]["id"] = GridOptions(r).treeDataOptions.columnId
       /\ InitialTreeSorter(GridOptions(r).treeDataOptions).columnId # ""
       /\ r.svc.hasHierarchical
    THEN updateSorting(r, <<InitialTreeSorter(GridOptions(r).treeDataOptions)>>, TRUE, TRUE)
    ELSE r

\* the last statement of bindLocalOnSort, not reached when the initial
\* sort threw
ThenSubscribeLocal(r) ==
    IF r.status # "returned" THEN r
    ELSE [r EXCEPT !.svc.subscribed = Append(@, "handleLocalOnSort")]

\* bindLocalOnSort(grid)
bindLocalOnSort(r) ==
    ThenSubscribeLocal(
        processTreeDataInitialSort([r EXCEPT !.svc.isBackendGrid = FALSE, !.svc.grid = TRUE]))

\* handleLocalOnSort run with what clearSortByColumnId notifies: a sort
\* column, or undefined; reading args.multiColumnSort of undefined and
\* args.sortCol.id of a sort column without sortCol throw
HandleSortOutput(r, args) ==
    IF args = <<>> THEN Throw(r, "TypeError")
    ELSE IF ~Has(args[1], "sortCol") THEN Throw(r, "TypeError")
    ELSE handleLocalOnSort(r, SetProp(args[1], "multiColumnSort", FALSE))

RECURSIVE NotifySortOutputFrom(_, _, _, _)
\* this._grid.onSort.notify(sortOutput): the subscribed handlers get the
\* sort output as it is, without a grid property
NotifySortOutputFrom(r, handlers, i, args) ==
    IF i > Len(handlers) \/ r.status # "returned" THEN r
    ELSE NotifySortOutputFrom(IF handlers[i] = "handleLocalOnSort"
                              THEN HandleSortOutput(r, args)
                              ELSE onBackendSortChanged(r, args),
                              handlers, i + 1, args)

RECURSIVE NotifyFrom(_, _, _, _)
\* grid.onSort.notify(args): the subscribed handlers run in the order of
\* their subscription; a handler that throws ends the notification
NotifyFrom(r, handlers, i, args) ==
    IF i > Len(handlers) \/ r.status # "returned" THEN r
    ELSE NotifyFrom(IF handlers[i] = "handleLocalOnSort"
                    THEN handleLocalOnSort(r, args)
                    ELSE onBackendSortChanged(r, <<SetProp(args, "grid", TRUE)>>),
                    handlers, i + 1, args)


\* A column id is a string or a number: a record with its type and, by
\* type, the chars of the string or the number (as the inputs of StringOf).
TextId(chars) == [type |-> "string", chars |-> chars]
NumberId(n) == [type |-> "number", number |-> n]
\* a falsy column id: '' or 0
FalsyId(id) == IF id.type = "string" THEN id.chars = <<>> ELSE id.number = 0

\* this._grid.getColumnIndex(id): the grid keeps its columns by id in an
\* object, whose keys are the ids as strings; 0 stands for undefined
getColumnIndex(r, id) ==
    LET found == {k \in 1..Len(r.grid.columns) :
                     StringOf(r.grid.columns[k]["id"]) = StringOf(id)}
    IN  IF found = {} THEN 0 ELSE CHOOSE k \in found : \A j \in found : j <= k

\* getCurrentColumnSorts(excludedColumnId?): the optional argument is a
\* string; !== is the strict comparison, a number never equals a string
getCurrentColumnSorts(r, excludedColumnId) ==
    IF ~r.svc.grid THEN <<>>
    ELSE LET oldSortColumns == r.grid.sortColumns
             kept == SelectSeq(oldSortColumns, LAMBDA col :
                         \/ excludedColumnId = <<>>
                         \/ excludedColumnId[1] = <<>>
                         \/ col["columnId"] # TextId(excludedColumnId[1]))
             entry(col) ==
                 LET columnId == IF FalsyId(col["columnId"]) THEN TextId(<<>>)
                                 ELSE col["columnId"]
                     index == getColumnIndex(r, columnId)
                     e == [columnId |-> columnId, sortAsc |-> col["sortAsc"]]
                 IN  IF index = 0 THEN e ELSE SetProp(e, "sortCol", r.grid.columns[index])
         IN  [i \in 1..Len(kept) |-> entry(kept[i])]

\* the statements of clearSortByColumnId that follow the sort with the
\* remaining columns: the sort icons are set, and with no column left the
\* grid is sorted by the default sort field
ThenUpdateSortColumns(r, sortedColsWithoutCurrent) ==
    IF r.status # "returned" THEN r
    ELSE SetSortColumns(r,
             [i \in 1..Len(sortedColsWithoutCurrent) |->
                 LET col == sortedColsWithoutCurrent[i]
                 IN  IF Has(col, "sortCol")
                     THEN [columnId |-> col["sortCol"]["id"], sortAsc |-> col["sortAsc"],
                           sortCol |-> col["sortCol"]]
                     ELSE [sortAsc |-> col["sortAsc"]]])

ThenSortByDefault(r, sortedColsWithoutCurrent) ==
    IF r.status = "returned" /\ Len(sortedColsWithoutCurrent) = 0
    THEN sortLocalGridByDefaultSortFieldId(r) ELSE r

\* clearSortByColumnId(event, columnId): this._dataView is the data view of
\* the bound grid; without one the remaining sort goes out as an onSort
\* event, of the first remaining column since gridOptions.multiColumnSort
\* is not set
clearSortByColumnId(r, columnId) ==
    LET allSortedCols == getCurrentColumnSorts(r, <<>>)
        sortedColsWithoutCurrent == getCurrentColumnSorts(r, <<StringOf(columnId)>>)
    IN  ThenSortByDefault(
            IF Len(allSortedCols) # Len(sortedColsWithoutCurrent)
            THEN ThenUpdateSortColumns(
                     IF GridOptions(r).backendServiceApi.present
                     THEN onBackendSortChanged(r, <<[multiColumnSort |-> TRUE,
                              sortCols |-> sortedColsWithoutCurrent, grid |-> TRUE]>>)
                     ELSE IF r.grid.dataView
                     THEN onLocalSortChanged(r, sortedColsWithoutCurrent, TRUE, TRUE)
                     ELSE NotifySortOutputFrom(r, r.svc.subscribed, 1,
                              IF Len(sortedColsWithoutCurrent) = 0 THEN <<>>
                              ELSE <<sortedColsWithoutCurrent[1]>>),
                     sortedColsWithoutCurrent)
            ELSE r,
            sortedColsWithoutCurrent)


\* ------------------------------------------------- sort service: inputs
BackendApis ==
    {NoApi} \cup [present : {TRUE}, process : BOOLEAN, service : BOOLEAN, preProcess : BOOLEAN]

GridColumns ==
    {<<>>, <<ColumnDef("colA", "colA")>>, <<ColumnDef("colA", "colA"), ColumnDef("colB", "colB")>>}

\* the sort icons the grid shows before the call
PriorSortColumns ==
    {<<>>, <<[columnId |-> "colB", sortAsc |-> FALSE]>>,
     <<[columnId |-> "colA", sortAsc |-> TRUE], [columnId |-> "colB", sortAsc |-> FALSE]>>}

\* no treeDataOptions, colA as the column with the tree data, and the
\* same with an initial sort by colB descending
TreeDataOptionsOfGrids ==
    {NoTreeDataOptions,
     [present |-> TRUE, columnId |-> "colA", initialSort |-> NoInitialSort],
     [present |-> TRUE, columnId |-> "colA",
      initialSort |-> [present |-> TRUE, columnId |-> "colB",
                       direction |-> <<"d", "e", "s", "c">>]]}

\* a tree grid has no backend; a sort icon sits on a column of the grid;
\* dataView: getData() of the grid yields a data view
Grids ==
    {g \in [options : [enableSorting : BOOLEAN, enableTreeData : BOOLEAN,
                       backendServiceApi : BackendApis,
                       treeDataOptions : TreeDataOptionsOfGrids],
            columns : GridColumns, sortColumns : PriorSortColumns, dataView : BOOLEAN] :
        /\ g.options.enableTreeData => ~g.options.backendServiceApi.present
        /\ g.options.treeDataOptions.present => g.options.enableTreeData
        /\ \A i \in 1..Len(g.sortColumns) : \E k \in 1..Len(g.columns) :
              g.columns[k]["id"] = g.sortColumns[i]["columnId"]}

\* the local sorters a sort by the sort icons of the grid leaves
SortersOfIcons(g) ==
    [i \in 1..Len(g.sortColumns) |->
        [columnId |-> g.sortColumns[i]["columnId"],
         direction |-> IF g.sortColumns[i]["sortAsc"] THEN SortDirection.ASC
                       ELSE SortDirection.DESC]]

\* the forests of n nodes whose nodes vary in colA only
SharedForests(n) == ValuedForestsOver(n, {0})

\* sharedService.hierarchicalDataset when it is an array: the forests are
\* enumerated for the bound tree grid with a data view, two columns and no
\* sort icon
SharedDatasets(g, s) ==
    IF ~s.hasHierarchical THEN {<<>>}
    ELSE IF s.grid /\ g.dataView /\ g.options.enableSorting /\ Len(g.columns) = 2
            /\ g.sortColumns = <<>>
    THEN UNION {SharedForests(n) : n \in 0..MaxRows}
    ELSE {<<>>}

\* the service, the grid and the hierarchical dataset once the grid is
\* made: the service not bound, just bound by bindBackendOnSort or by
\* bindLocalOnSort (whose initial tree sort may throw), or bound by
\* bindLocalOnSort and sorted since by the columns the icons show; only a
\* tree grid has a hierarchical dataset, which is empty unless the grid is
\* bound by bindLocalOnSort
ServiceStates(g) ==
    LET unbound == {[NoService EXCEPT !.hasHierarchical = h] :
                       h \in IF g.options.enableTreeData THEN BOOLEAN ELSE {FALSE}}
        fresh(s, h) == [svc |-> s, grid |-> g, h |-> h, fx |-> <<>>, status |-> "returned"]
        datasets(s) == SharedDatasets(g, [s EXCEPT !.grid = TRUE])
        sorted(r) == [r EXCEPT !.svc.currentLocalSorters = SortersOfIcons(r.grid)]
    IN  {fresh(s, <<>>) : s \in unbound}
        \cup {bindBackendOnSort(fresh(s, <<>>)) : s \in unbound}
        \cup UNION {{bindLocalOnSort(fresh(s, h)) : h \in datasets(s)} : s \in unbound}
        \cup UNION {{sorted(bindLocalOnSort(fresh(s, h))) : h \in datasets(s)} : s \in unbound}

\* the services of a grid without tree data, which the bind methods leave
\* as it is
ServicesOf(g) == {r.svc : r \in ServiceStates(g)}

\* the args of grid.onSort: a single-column or a multi-column sort
SortEvents ==
    {[multiColumnSort |-> FALSE, sortAsc |-> c["sortAsc"], sortCol |-> c["sortCol"]] :
        c \in TreeColumnSorts}
    \cup {[multiColumnSort |-> TRUE, sortCols |-> l] : l \in TreeColumnSortLists}

\* the sorters handed to updateSorting: directions in either letter case,
\* and a sorter for a column the grid does not have
SorterLists ==
    {[i \in 1..Len(l) |->
        [columnId |-> l[i]["columnId"],
         direction |-> IF l[i]["sortAsc"] THEN <<"a", "s", "c">> ELSE SortDirection.DESC]] :
        l \in TreeColumnSortLists}
    \cup {<<[columnId |-> "colZ", direction |-> SortDirection.ASC]>>,
          <<[columnId |-> "colZ", direction |-> <<"d", "e", "s", "c">>],
            [columnId |-> "colA", direction |-> <<"D", "e", "s", "c">>]>>}

\* the args of a direct call of onBackendSortChanged
BackendArgs ==
    {<<>>, <<[multiColumnSort |-> TRUE, sortCols |-> <<>>]>>,
     <<[grid |-> TRUE, multiColumnSort |-> TRUE, sortCols |-> <<>>]>>}

\* ------------------------------------------------------ tree-side inputs
\* no parentId property at all is the choice Undefined
ParentChoices == {Undefined, Null} \cup Ids

TitleOf(id) == 10 + id

\* a row of the caller's flat array; a stale row still carries the
\* bookkeeping fields of an earlier conversion and roll-up
FlatRow(id, parent, stale) ==
    LET a == [id |-> id, title |-> TitleOf(id)]
        b == IF parent = Undefined THEN a ELSE SetProp(a, "parentId", parent)
    IN  IF stale
        THEN SetProp(SetProp(SetProp(b, "__treeLevel", 7), "__hasChildren", TRUE),
                     "__treeItems", <<TitleOf(id)>>)
        ELSE b

\* the flat arrays of n rows: the identifiers are distinct, as a data view
\* requires of its items
FlatDatasets(n) ==
    { [i \in 1..n |-> FlatRow(ids[i], parents[i], stale)] :
        ids \in {f \in [1..n -> Ids] : \A i, j \in 1..n : f[i] = f[j] => i = j},
        parents \in [1..n -> ParentChoices], stale \in BOOLEAN }

RECURSIVE ForestNode(_, _, _, _, _)
\* node k of a forest given by a parent vector over 1..n (0 = root), an
\* identifier per node, and a flag per node: a childless node with the flag
\* carries an empty children array
ForestNode(n, pv, idv, emptyKids, k) ==
    LET kids == SortedSeq({j \in (k + 1)..n : pv[j] = k})
        a == [id |-> idv[k], title |-> TitleOf(idv[k])]
    IN  IF kids # <<>> \/ emptyKids[k]
        THEN SetProp(a, "children",
                 [i \in 1..Len(kids) |-> ForestNode(n, pv, idv, emptyKids, kids[i])])
        ELSE a

Forest(n, pv, idv, emptyKids) ==
    LET roots == SortedSeq({j \in 1..n : pv[j] = 0})
    IN  [i \in 1..Len(roots) |-> ForestNode(n, pv, idv, emptyKids, roots[i])]

\* the forests of n nodes; an identifier may occur on several nodes
Forests(n) ==
    { Forest(n, pv, idv, ek) :
        pv \in {f \in [1..n -> 0..n] : \A k \in 1..n : f[k] < k},
        idv \in [1..n -> Ids], ek \in [1..n -> BOOLEAN] }

UniqueIds(items) ==
    \A i, j \in 1..Len(items) : items[i]["id"] = items[j]["id"] => i = j

\* ------------------------------------------------------ tree-side actions
NoOut == [status |-> "none"]

InitTree ==
    /\ op = "init"
    /\ walk = NoWalk
    /\ parseOut = NoOut
    /\ parseIn = NoOut
    /\ call = NoOut
    /\ grid = NoGrid
    /\ svc = NoService
    /\ given = <<>>
    /\ \E n \in 0..MaxRows :
          \/ dataset \in FlatDatasets(n) /\ hierarchical = <<>>
          \/ dataset = <<>> /\ hierarchical \in Forests(n)
    /\ treeOut = <<>>
    /\ rollup = "none"
    /\ sortColumns = <<>> /\ dataRow1 = EmptyObject /\ dataRow2 = EmptyObject
    /\ sortOut = NoOut
    /\ filterIn = NoOut /\ filterOut = NoOut

\* hierarchical = convertParentChildFlatArrayToHierarchicalView(dataset)
ConvertToHierarchical ==
    /\ op = "init"
    /\ hierarchical = <<>>
    /\ hierarchical' = convertParentChildFlatArrayToHierarchicalView(dataset)
    /\ treeOut' = hierarchical'
    /\ op' = "toHierarchical"
    /\ UNCHANGED <<walk, parseOut, parseIn, call, grid, svc, given, dataset, rollup, sortColumns, dataRow1, dataRow2, sortOut, filterIn, filterOut>>

\* flat = convertHierarchicalViewToFlatArray(hierarchical)
ConvertToFlat ==
    /\ op \in {"init", "toHierarchical"}
    /\ treeOut' = convertHierarchicalViewToFlatArray(hierarchical)
    /\ op' = IF op = "init" THEN "toFlat" ELSE "roundTrip"
    /\ UNCHANGED <<walk, parseOut, parseIn, call, grid, svc, given, dataset, hierarchical, rollup, sortColumns, dataRow1, dataRow2, sortOut, filterIn, filterOut>>

\* modifyDatasetToAddTreeItemsMapping(dataset, column, dataView) on the rows
\* of the data view, which are written in place
AddTreeItemsMapping ==
    /\ op = "init"
    /\ LET r == modifyDatasetToAddTreeItemsMapping(dataset, "parentId", "title")
       IN  dataset' = r.items /\ rollup' = r.status
    /\ op' = "rollup"
    /\ UNCHANGED <<walk, parseOut, parseIn, call, grid, svc, given, hierarchical, treeOut, sortColumns, dataRow1, dataRow2, sortOut, filterIn, filterOut>>

NextTree == ConvertToHierarchical \/ ConvertToFlat \/ AddTreeItemsMapping

SpecTree == InitTree /\ [][NextTree]_vars

\* ------------------------------------------- what the tree claims speak of
IdsOf(items) == {items[i]["id"] : i \in 1..Len(items)}

\* has a parent reference that is neither absent nor null
DeclaresParent(row) == Has(row, "parentId") /\ row["parentId"] # Null

RECURSIVE AncestorsOf(_, _, _)
\* identifiers met by following parent references upward from the row id
AncestorsOf(items, id, fuel) ==
    IF fuel = 0 \/ id \notin IdsOf(items) THEN {}
    ELSE LET row == items[CHOOSE i \in 1..Len(items) : items[i]["id"] = id]
         IN  IF DeclaresParent(row) /\ row["parentId"] \in IdsOf(items)
             THEN {row["parentId"]} \cup AncestorsOf(items, row["parentId"], fuel - 1)
             ELSE {}

Ancestors(items, id) == AncestorsOf(items, id, Len(items))
DescendantsOrSelf(items, id) ==
    {id} \cup {d \in IdsOf(items) : id \in Ancestors(items, d)}
HasChild(items, id) ==
    \E i \in 1..Len(items) : DeclaresParent(items[i]) /\ items[i]["parentId"] = id

\* unique identifiers, every declared parent is a row, no cycle
WellFormedFlat(items) ==
    /\ UniqueIds(items)
    /\ \A i \in 1..Len(items) :
          DeclaresParent(items[i]) => items[i]["parentId"] \in IdsOf(items)
    /\ \A i \in 1..Len(items) : items[i]["id"] \notin Ancestors(items, items[i]["id"])

HasChildrenFlag(row) == Has(row, "__hasChildren") /\ row["__hasChildren"] = TRUE

RECURSIVE PreOrder(_, _, _)
\* the nodes of a forest, node before subtree before next sibling, each as
\* <<identifier, depth, has a children sequence>>
PreOrder(nodes, i, depth) ==
    IF i > Len(nodes) THEN <<>>
    ELSE <<[id |-> nodes[i]["id"], depth |-> depth, kids |-> Has(nodes[i], "children")]>>
         \o (IF Has(nodes[i], "children") THEN PreOrder(nodes[i]["children"], 1, depth + 1)
             ELSE <<>>)
         \o PreOrder(nodes, i + 1, depth)

Nodes(forest) == PreOrder(forest, 1, 0)
UniqueForest(forest) == UniqueIds(Nodes(forest))

\* C5: round trip: a well-formed flat array converted to hierarchical and
\* back has the same identifiers, each once, with depth = number of
\* ancestors and has-children true exactly on rows with a child.
C5_RoundTrip ==
    (op = "roundTrip" /\ WellFormedFlat(dataset)) =>
        /\ Len(treeOut) = Len(dataset)
        /\ IdsOf(treeOut) = IdsOf(dataset)
        /\ \A k \in 1..Len(treeOut) :
              /\ treeOut[k]["__treeLevel"] = Cardinality(Ancestors(dataset, treeOut[k]["id"]))
              /\ HasChildrenFlag(treeOut[k]) <=> HasChild(dataset, treeOut[k]["id"])

\* the chain 0 <- 1 <- 2 went through the round trip
C5_Witness ==
    /\ op = "roundTrip" /\ WellFormedFlat(dataset) /\ Len(dataset) = 3
    /\ \E k \in 1..Len(treeOut) : treeOut[k]["__treeLevel"] = 2
    /\ \E k \in 1..Len(treeOut) : ~HasChildrenFlag(treeOut[k])

\* C6: the identifiers reachable from the roots returned for a flat array
\* with unique identifiers are those of the flat input, none lost, none twice.
C6_NoRowLost ==
    (op = "toHierarchical" /\ UniqueIds(dataset)) =>
        /\ IdsOf(Nodes(hierarchical)) = IdsOf(dataset)
        /\ UniqueForest(hierarchical)

\* C7: a row whose declared parent matches no row identifier is returned as
\* a root.
C7_DanglingIsRoot ==
    (op = "toHierarchical" /\ UniqueIds(dataset)) =>
        \A i \in 1..Len(dataset) :
            (DeclaresParent(dataset[i]) /\ dataset[i]["parentId"] \notin IdsOf(dataset))
                => dataset[i]["id"] \in IdsOf(hierarchical)

\* C8: flattening a forest with unique identifiers emits its nodes in
\* depth-first pre-order, each with tree level = depth, without a children
\* field, and has-children true exactly when it had a children sequence.
C8_PreOrderFlatten ==
    (op = "toFlat" /\ UniqueForest(hierarchical)) =>
        LET ref == Nodes(hierarchical)
        IN  /\ Len(treeOut) = Len(ref)
            /\ \A k \in 1..Len(treeOut) :
                  /\ treeOut[k]["id"] = ref[k].id
                  /\ treeOut[k]["__treeLevel"] = ref[k].depth
                  /\ ~Has(treeOut[k], "children")
                  /\ HasChildrenFlag(treeOut[k]) <=> ref[k].kids

\* a root with a child, followed by a second root
C8_Witness ==
    /\ op = "toFlat" /\ UniqueForest(hierarchical) /\ Len(treeOut) = 3
    /\ treeOut[2]["__treeLevel"] = 1 /\ treeOut[3]["__treeLevel"] = 0
    /\ HasChildrenFlag(treeOut[1]) /\ ~HasChildrenFlag(treeOut[3])

\* position of the first node of the pre-order carrying the identifier
FirstAt(ref, id) ==
    CHOOSE k \in 1..Len(ref) : ref[k].id = id /\ \A j \in 1..(k - 1) : ref[j].id # id

\* C9: the flat output never holds an identifier twice; of several nodes
\* with one identifier the first in pre-order is the one emitted.
C9_NoDuplicateOutput ==
    (op \in {"toFlat", "roundTrip"}) =>
        LET ref == Nodes(hierarchical)
        IN  /\ UniqueIds(treeOut)
            /\ IdsOf(treeOut) = IdsOf(ref)
            /\ \A k \in 1..Len(treeOut) :
                  LET f == FirstAt(ref, treeOut[k]["id"])
                  IN  /\ treeOut[k]["__treeLevel"] = ref[f].depth
                      /\ HasChildrenFlag(treeOut[k]) <=> ref[f].kids
            /\ \A j, k \in 1..Len(treeOut) :
                  j < k => FirstAt(ref, treeOut[j]["id"]) < FirstAt(ref, treeOut[k]["id"])

\* a forest in which an identifier occurs on two nodes was flattened
C9_Witness ==
    /\ op = "toFlat" /\ ~UniqueForest(hierarchical)
    /\ Len(treeOut) = 2 /\ Len(Nodes(hierarchical)) = 3

TreeItemsOf(row) ==
    IF Has(row, "__treeItems")
    THEN {row["__treeItems"][k] : k \in 1..Len(row["__treeItems"])}
    ELSE {}

\* C10: after the roll-up over a well-formed flat dataset, rows listed in
\* any order, every row's list is its own entry plus those of all its
\* descendants.
C10_RollUpAnyOrder ==
    (op = "rollup" /\ WellFormedFlat(dataset)) =>
        /\ rollup = "done"
        /\ \A i \in 1..Len(dataset) :
              TreeItemsOf(dataset[i]) =
                  {TitleOf(d) : d \in DescendantsOrSelf(dataset, dataset[i]["id"])}

\* ------------------------------------------------------ sort-side actions
InitSort ==
    /\ op = "init"
    /\ walk = NoWalk
    /\ parseOut = NoOut
    /\ parseIn = NoOut
    /\ call = NoOut
    /\ grid = NoGrid
    /\ svc = NoService
    /\ given = <<>>
    /\ sortColumns \in ColumnSortLists
    /\ dataRow1 \in Rows /\ dataRow2 \in Rows
    /\ sortOut = NoOut
    /\ dataset = <<>> /\ hierarchical = <<>> /\ treeOut = <<>> /\ rollup = "none"
    /\ filterIn = NoOut /\ filterOut = NoOut

\* the data view's sort calls sortComparers(sortColumns, dataRow1, dataRow2)
CompareRows ==
    /\ op = "init"
    /\ LET r == sortComparers(sortColumns, dataRow1, dataRow2)
       IN  sortOut' = [status |-> "done", value |-> r.value, calls |-> r.calls]
    /\ op' = "sortComparers"
    /\ UNCHANGED <<walk, parseOut, parseIn, call, grid, svc, given, dataset, hierarchical, treeOut, rollup, sortColumns, dataRow1, dataRow2,
                   filterIn, filterOut>>

NextSort == CompareRows

SpecSort == InitSort /\ [][NextSort]_vars

\* what one directive says about the two rows, from its column definition:
\* 0 when it is neutral or has no column
Verdict(sortColumn) ==
    IF ~Has(sortColumn, "sortCol") THEN 0
    ELSE LET c == sortColumn["sortCol"]
             dir == IF sortColumn["sortAsc"] THEN 1 ELSE 0 - 1
             f == IF Has(c, "queryField") THEN c["queryField"] ELSE c["field"]
         IN  IF Has(c, "sortComparer")
             THEN CustomComparer(c["sortComparer"], dataRow1[f], dataRow2[f], dir)
             ELSE dir * Sign(dataRow1[f] - dataRow2[f])

Decisive == {i \in 1..Len(sortColumns) : Verdict(sortColumns[i]) # 0}
FirstDecisive == CHOOSE i \in Decisive : \A j \in Decisive : i <= j
Consulted == {sortOut.calls[k][1] : k \in 1..Len(sortOut.calls)}

\* C1: sortComparers returns the verdict of the first directive that is
\* not neutral and consults no later directive; it returns 0 when all are
\* neutral; [colA asc, colB desc] orders rows tied on colA by colB descending.
C1_FirstDecisiveWins ==
    (op = "sortComparers") =>
        /\ Decisive = {} => sortOut.value = 0
        /\ Decisive # {} =>
              /\ sortOut.value = Verdict(sortColumns[FirstDecisive])
              /\ \A i \in Consulted : i <= FirstDecisive
              /\ FirstDecisive \in Consulted
        /\ (/\ Len(sortColumns) = 2
            /\ sortColumns[1] = [columnId |-> "colA", sortAsc |-> TRUE,
                                 sortCol |-> ColumnDef("colA", "colA")]
            /\ sortColumns[2] = [columnId |-> "colB", sortAsc |-> FALSE,
                                 sortCol |-> ColumnDef("colB", "colB")]
            /\ dataRow1.colA = dataRow2.colA)
           => sortOut.value = Sign(dataRow2.colB - dataRow1.colB)

\* rows tied on the first directive were ordered by the second, descending
C1_Witness ==
    /\ op = "sortComparers" /\ Len(sortColumns) = 2
    /\ sortColumns[1]["sortAsc"] /\ ~sortColumns[2]["sortAsc"]
    /\ Has(sortColumns[1], "sortCol") /\ sortColumns[1]["sortCol"]["id"] = "colA"
    /\ Has(sortColumns[2], "sortCol") /\ sortColumns[2]["sortCol"]["id"] = "colB"
    /\ dataRow1.colA = dataRow2.colA
    /\ dataRow1.colB < dataRow2.colB /\ sortOut.value = 1
    /\ Consulted = {1, 2}

\* C2: a non-neutral value of a column's custom comparator is the result of
\* the comparison unchanged, ascending or descending, and the generic
\* comparator is not invoked for that directive.
C2_CustomUnchanged ==
    (op = "sortComparers" /\ Len(sortColumns) >= 1
       /\ Has(sortColumns[1], "sortCol") /\ Has(sortColumns[1]["sortCol"], "sortComparer")) =>
        LET c == sortColumns[1]["sortCol"]
            custom(dir) == CustomComparer(c["sortComparer"], dataRow1[c["field"]],
                                          dataRow2[c["field"]], dir)
            asIs == custom(IF sortColumns[1]["sortAsc"] THEN 1 ELSE 0 - 1)
        IN  asIs # 0 => /\ sortOut.value = asIs
                        /\ sortOut.calls = <<<<1, "custom">>>>

\* a descending directive returned the positive value of its custom
\* comparator, where the generic comparator would have said negative
C2_Witness ==
    /\ op = "sortComparers" /\ Len(sortColumns) >= 1
    /\ Has(sortColumns[1], "sortCol") /\ Has(sortColumns[1]["sortCol"], "sortComparer")
    /\ ~sortColumns[1]["sortAsc"]
    /\ dataRow1.colA < dataRow2.colA
    /\ sortOut.value = 1 /\ sortOut.calls = <<<<1, "custom">>>>

\* ---------------------------------------------------- filter-side actions
InitFilter ==
    /\ op = "init"
    /\ walk = NoWalk
    /\ parseOut = NoOut
    /\ parseIn = NoOut
    /\ call = NoOut
    /\ grid = NoGrid
    /\ svc = NoService
    /\ given = <<>>
    /\ filterIn \in {SetProp(o, "parsedSearchTerms", p) : o \in FilterOptions, p \in ParsedSearchTerms}
    /\ filterOut = NoOut
    /\ dataset = <<>> /\ hierarchical = <<>> /\ treeOut = <<>> /\ rollup = "none"
    /\ sortColumns = <<>> /\ dataRow1 = EmptyObject /\ dataRow2 = EmptyObject
    /\ sortOut = NoOut

\* once per filter: getParsedSearchTermsByFieldType(searchTerms, fieldType)
ParseSearchTerms ==
    /\ op = "init"
    /\ LET r == getParsedSearchTermsByFieldType(filterIn["fieldType"])
       IN  filterOut' = [status |-> "parsed", generalType |-> r.generalType,
                         parser |-> r.parser]
    /\ op' = "getParsedSearchTerms"
    /\ UNCHANGED <<walk, parseOut, parseIn, call, grid, svc, given, dataset, hierarchical, treeOut, rollup, sortColumns, dataRow1, dataRow2,
                   sortOut, filterIn>>

\* per cell: executeMappedCondition(options, parsedSearchTerms)
ExecuteCondition ==
    /\ op \in {"init", "getParsedSearchTerms"}
    /\ \E build \in Builds :
          filterOut' = executeMappedCondition(filterIn, filterIn["parsedSearchTerms"], build)
    /\ op' = "executeMappedCondition"
    /\ UNCHANGED <<walk, parseOut, parseIn, call, grid, svc, given, dataset, hierarchical, treeOut, rollup, sortColumns, dataRow1, dataRow2,
                   sortOut, filterIn>>

\* the default operator of a filter: mapOperatorByFieldType(fieldType)
MapOperator ==
    /\ op = "init"
    /\ filterOut' = [status |-> "mapped", map |-> mapOperatorByFieldType(filterIn["fieldType"])]
    /\ op' = "mapOperatorByFieldType"
    /\ UNCHANGED <<walk, parseOut, parseIn, call, grid, svc, given, dataset, hierarchical, treeOut, rollup, sortColumns, dataRow1, dataRow2,
                   sortOut, filterIn>>

NextFilter == ParseSearchTerms \/ ExecuteCondition \/ MapOperator

SpecFilter == InitFilter /\ [][NextFilter]_vars

\* C3: the classifier yields one of the five general types for every field
\* type, and text for every field type that is unrecognized or absent.
C3_ClassifierTotal ==
    (op = "getParsedSearchTerms") =>
        /\ filterOut.generalType \in GeneralVariableType
        /\ filterOut.parser # "none"
        /\ filterIn["fieldType"] \in {"undefined", "somethingElse", "unknown"}
              => filterOut.generalType = "text"
        /\ filterIn["fieldType"] \in DateFieldTypes => filterOut.generalType = "date"

\* a column without a type was classified
C3_Witness ==
    /\ op = "getParsedSearchTerms" /\ filterIn["fieldType"] = "undefined"
    /\ filterOut.generalType = "text"

\* the six names, each letter of the operator given read without its case
IsCollectionOperator(str) ==
    \E name \in CollectionOperators :
        /\ Len(name) = Len(str)
        /\ \A k \in 1..Len(str) : str[k] = name[k] \/ str[k] = LowerChar(name[k])

\* C4: with one of the six collection operators in any letter case the
\* result is the collection-search evaluator's, whatever the field type,
\* and no category evaluator is invoked.
C4_CollectionBypass ==
    (op = "executeMappedCondition" /\ Has(filterIn, "operator")
       /\ IsCollectionOperator(filterIn["operator"])) =>
        /\ filterOut.status = "returned"
        /\ filterOut.value = filterIn["collectionVerdict"]
        /\ filterOut.invoked = <<"executeCollectionSearchFilterCondition">>

\* a lower-case "in" on a date field got the collection evaluator's verdict
\* where the date evaluator would have said the opposite
C4_Witness ==
    /\ op = "executeMappedCondition" /\ Has(filterIn, "operator")
    /\ filterIn["operator"] = <<"i", "n">> /\ filterIn["fieldType"] = "dateIso"
    /\ filterIn["collectionVerdict"] # filterIn["categoryVerdict"]
    /\ filterOut.status = "returned"
    /\ filterOut.value = filterIn["collectionVerdict"]

\* ------------------------------------------------- tree sort: actions
InitTreeSort ==
    /\ op = "init"
    /\ walk = NoWalk
    /\ parseOut = NoOut
    /\ parseIn = NoOut
    /\ call = NoOut
    /\ grid = NoGrid
    /\ svc = NoService
    /\ \E n \in 0..MaxRows : hierarchical \in ValuedForests(n)
    /\ given = hierarchical
    /\ sortColumns \in TreeColumnSortLists
    /\ treeOut = <<>>
    /\ dataset = <<>> /\ rollup = "none"
    /\ dataRow1 = EmptyObject /\ dataRow2 = EmptyObject /\ sortOut = NoOut
    /\ filterIn = NoOut /\ filterOut = NoOut

\* sortHierarchicalDataset(hierarchical, sortColumns): hierarchical is
\* sorted in place, the flat array is returned
SortHierarchical ==
    /\ op = "init"
    /\ LET r == sortHierarchicalDataset(hierarchical, sortColumns)
       IN  hierarchical' = r.hierarchical /\ treeOut' = r.flat
    /\ op' = "sortHierarchical"
    /\ UNCHANGED <<walk, parseOut, parseIn, call, grid, svc, given, dataset, rollup, sortColumns, dataRow1, dataRow2, sortOut,
                   filterIn, filterOut>>

\* one pass of the tree sort, sortTreeChild(hierarchical, sortColumn, 0):
\* hierarchical is sorted in place, treeOut lists the sorts as they complete
SortTreeChild ==
    /\ op = "init" /\ Len(sortColumns) = 1
    /\ hierarchical' = sortTreeChild(hierarchical, sortColumns[1])
    /\ treeOut' = sortTreeChildSteps(hierarchical, sortColumns[1], 0)
    /\ op' = "sortTreeChild"
    /\ UNCHANGED <<walk, parseOut, parseIn, call, grid, svc, given, dataset, rollup, sortColumns, dataRow1, dataRow2, sortOut,
                   filterIn, filterOut>>

NextTreeSort == SortHierarchical \/ SortTreeChild

SpecTreeSort == InitTreeSort /\ [][NextTreeSort]_vars

\* ---------------------------------------- what the tree sort claims speak of
RECURSIVE Edges(_, _)
\* <<identifier, identifier of the parent>> of every node, 0 for a root
Edges(nodes, parent) ==
    UNION {{<<nodes[i]["id"], parent>>}
           \cup (IF Has(nodes[i], "children")
                 THEN Edges(nodes[i]["children"], nodes[i]["id"]) ELSE {}) :
           i \in 1..Len(nodes)}

RECURSIVE SiblingGroups(_)
\* the root sequence and every children sequence
SiblingGroups(nodes) ==
    {nodes} \cup UNION {IF Has(nodes[i], "children")
                        THEN SiblingGroups(nodes[i]["children"]) ELSE {} :
                        i \in 1..Len(nodes)}

RECURSIVE LastDecisiveFrom(_, _, _, _)
\* the verdict on (a, b) of the last directive of the list that is not
\* neutral on them, 0 when every directive is neutral
LastDecisiveFrom(columns, i, a, b) ==
    IF i = 0 THEN 0
    ELSE IF TreeComparator(columns[i], a, b) # 0 THEN TreeComparator(columns[i], a, b)
         ELSE LastDecisiveFrom(columns, i - 1, a, b)

\* C11: the tree sort only reorders siblings: every node keeps its parent
\* (so every node keeps its set of children); each sibling sequence is in
\* the order of the comparator of the directive sorted last; and its order
\* is fixed by the values and the given positions of those siblings alone
\* (identifiers number the given positions).
C11_OnlyReordersSiblings ==
    (op = "sortHierarchical") =>
        /\ Edges(hierarchical, 0) = Edges(given, 0)
        /\ \A g \in SiblingGroups(hierarchical) : \A i \in 1..(Len(g) - 1) :
              /\ Len(sortColumns) >= 1 =>
                    TreeComparator(sortColumns[Len(sortColumns)], g[i], g[i + 1]) <= 0
              /\ LET c == LastDecisiveFrom(sortColumns, Len(sortColumns), g[i], g[i + 1])
                 IN  c < 0 \/ (c = 0 /\ g[i]["id"] < g[i + 1]["id"])

\* two children of one root changed places while the root, whose values
\* differ from theirs, stayed where it was
C11_Witness ==
    /\ op = "sortHierarchical" /\ Len(sortColumns) = 1
    /\ Len(hierarchical) = 1 /\ Has(hierarchical[1], "children")
    /\ Len(hierarchical[1]["children"]) = 2
    /\ hierarchical[1]["children"][1]["id"] = 3
    /\ hierarchical[1]["children"][2]["id"] = 2
    /\ hierarchical[1]["colA"] # hierarchical[1]["children"][1]["colA"]

\* C12: with several directives the first is the primary key at every
\* level: each sibling sequence is in the order of sortComparers with the
\* same directive sequence.
C12_FirstDirectivePrimary ==
    (op = "sortHierarchical") =>
        \A g \in SiblingGroups(hierarchical) : \A i \in 1..(Len(g) - 1) :
            sortComparers(sortColumns, g[i], g[i + 1]).value <= 0
\* ------------------------------------------------- sort service: actions
InitService ==
    /\ op = "init"
    /\ walk = NoWalk
    /\ parseOut = NoOut
    /\ parseIn = NoOut
    /\ \E g \in Grids : \E r \in ServiceStates(g) :
          grid = r.grid /\ svc = r.svc /\ hierarchical = r.h /\ given = r.h
    /\ call = NoOut
    /\ dataset = <<>> /\ treeOut = <<>> /\ rollup = "none"
    /\ sortColumns = <<>> /\ dataRow1 = EmptyObject /\ dataRow2 = EmptyObject
    /\ sortOut = NoOut
    /\ filterIn = NoOut /\ filterOut = NoOut

\* the state a call starts from
Start == [svc |-> svc, grid |-> grid, h |-> hierarchical, fx |-> <<>>, status |-> "returned"]

\* the state a call leaves, whether it returned or threw
Finish(name, args, r) ==
    /\ svc' = r.svc /\ grid' = r.grid /\ hierarchical' = r.h
    /\ call' = [name |-> name, args |-> args, status |-> r.status, fx |-> r.fx,
                before |-> [svc |-> svc, grid |-> grid]]
    /\ op' = name
    /\ UNCHANGED <<walk, parseOut, parseIn, given, dataset, treeOut, rollup, sortColumns, dataRow1, dataRow2, sortOut,
                   filterIn, filterOut>>

\* the grid fires onSort: the handler subscribed by the bind method runs
OnSort ==
    /\ op = "init" /\ Len(svc.subscribed) = 1
    /\ \E args \in SortEvents :
          IF svc.subscribed[1] = "handleLocalOnSort"
          THEN Finish("handleLocalOnSort", args, handleLocalOnSort(Start, args))
          ELSE LET a == <<SetProp(args, "grid", TRUE)>>
               IN  Finish("onBackendSortChanged", a, onBackendSortChanged(Start, a))

\* onBackendSortChanged called directly
CallOnBackendSortChanged ==
    /\ op = "init"
    /\ \E args \in BackendArgs :
          Finish("onBackendSortChanged", args, onBackendSortChanged(Start, args))

ClearSorting ==
    /\ op = "init"
    /\ \E triggerQueryEvent \in BOOLEAN :
          Finish("clearSorting", triggerQueryEvent, clearSorting(Start, triggerQueryEvent))

UpdateSorting ==
    /\ op = "init"
    /\ \E sorters \in SorterLists, emitChangedEvent \in BOOLEAN, triggerBackendQuery \in BOOLEAN :
          Finish("updateSorting", <<sorters, emitChangedEvent, triggerBackendQuery>>,
                 updateSorting(Start, sorters, emitChangedEvent, triggerBackendQuery))

Dispose ==
    /\ op = "init"
    /\ Finish("dispose", <<>>, dispose(Start))

NextService == OnSort \/ CallOnBackendSortChanged \/ ClearSorting \/ UpdateSorting \/ Dispose

SpecService == InitService /\ [][NextService]_vars

\* ------------------------------------- what the service claims speak of
\* the effects of the last call that sort the data view
SortEffects ==
    SelectSeq(call.fx, LAMBDA e : e[1] \in {"dataView.sort", "dataView.setItems", "dataView.reSort"})

\* the events of the given name published by the last call
Published(name) == SelectSeq(call.fx, LAMBDA e : e[1] = "publish" /\ e[2] = name)

\* the call started on a grid bound by bindLocalOnSort
WasBoundLocal == call.before.svc.grid /\ ~call.before.svc.isBackendGrid

\* the call started in tree mode with a hierarchical dataset, on a grid
\* that has a data view
WasTreeMode ==
    /\ call.before.svc.grid /\ call.before.grid.options.enableTreeData
    /\ call.before.svc.hasHierarchical
    /\ call.before.grid.dataView

\* flat is the depth-first pre-order flattening of forest
IsPreOrderOf(flat, forest) ==
    /\ Len(flat) = Len(Nodes(forest))
    /\ \A k \in 1..Len(flat) :
          /\ flat[k]["id"] = Nodes(forest)[k].id
          /\ flat[k]["__treeLevel"] = Nodes(forest)[k].depth

\* every sibling sequence of forest is in the order of the directive
SortedBy(forest, sortColumn) ==
    \A g \in SiblingGroups(forest) : \A i \in 1..(Len(g) - 1) :
        TreeComparator(sortColumn, g[i], g[i + 1]) <= 0

\* C13: in tree mode a sort event leaves the hierarchical array that was
\* given sorted in place (same nodes under the same parents, siblings in
\* the order of the directive), hands the data view the depth-first
\* pre-order flattening of that sorted array through setItems, and never
\* calls the data view's own sort; no call on the service does in tree mode.
C13_TreeSortReplacesItems ==
    (op \in {"handleLocalOnSort", "clearSorting", "updateSorting"} /\ WasTreeMode) =>
        /\ \A k \in 1..Len(SortEffects) : SortEffects[k][1] = "dataView.setItems"
        /\ op = "handleLocalOnSort" =>
              /\ Len(SortEffects) = 1
              /\ IsPreOrderOf(SortEffects[1][2], hierarchical)
              /\ Edges(hierarchical, 0) = Edges(given, 0)
              /\ Len(EventSortColumns(call.args)) = 1 =>
                    SortedBy(hierarchical, EventSortColumns(call.args)[1])

\* a tree of a root with two children was sorted by a single-column event:
\* the children changed places and the data view received the new order
C13_Witness ==
    /\ op = "handleLocalOnSort" /\ WasTreeMode /\ ~call.args["multiColumnSort"]
    /\ Len(given) = 1 /\ Len(hierarchical) = 1 /\ hierarchical # given
    /\ Len(SortEffects) = 1 /\ Len(SortEffects[1][2]) = 3
    /\ SortEffects[1][2][2]["id"] = 3 /\ SortEffects[1][2][3]["id"] = 2

\* C15: updateSorting while enableSorting is not set throws at once and
\* changes nothing: service, grid and dataset are as before and the call
\* had no effect on the data view, the backend or the event bus.
C15_UpdateSortingNeedsEnableSorting ==
    (op = "updateSorting"
       /\ ~(call.before.svc.grid /\ call.before.grid.options.enableSorting)) =>
        /\ call.status = "Error"
        /\ call.fx = <<>>
        /\ svc = call.before.svc /\ grid = call.before.grid /\ hierarchical = given

\* two sorters were handed to a bound local grid that has sorters and sort
\* icons but no enableSorting
C15_Witness ==
    /\ op = "updateSorting" /\ WasBoundLocal /\ ~call.before.grid.options.enableSorting
    /\ Len(call.args[1]) = 2 /\ call.args[2] /\ call.status = "Error"
    /\ Len(svc.currentLocalSorters) = 1 /\ Len(grid.sortColumns) = 1

\* C16: onBackendSortChanged throws when args or args.grid is missing or
\* the backend API of the grid is missing or lacks process or service; it
\* has then run neither preProcess nor processOnSortChanged.
C16_BackendSortGuards ==
    (op = "onBackendSortChanged"
       /\ \/ call.args = <<>>
          \/ ~Has(call.args[1], "grid")
          \/ ~call.before.grid.options.backendServiceApi.present
          \/ ~call.before.grid.options.backendServiceApi.process
          \/ ~call.before.grid.options.backendServiceApi.service) =>
        /\ call.status = "Error"
        /\ call.fx = <<>>

\* the grid fired onSort on a backend API that has preProcess and a service
\* but no process function
C16_Witness ==
    /\ op = "onBackendSortChanged" /\ call.args # <<>> /\ Has(call.args[1], "grid")
    /\ call.args[1]["multiColumnSort"] /\ Len(call.args[1]["sortCols"]) = 2
    /\ call.before.grid.options.backendServiceApi.preProcess
    /\ call.before.grid.options.backendServiceApi.service
    /\ ~call.before.grid.options.backendServiceApi.process
    /\ call.status = "Error"

\* the {columnId, direction} of the sort columns of an onSort event
SortersOfEvent(args) ==
    IF args["multiColumnSort"]
    THEN [i \in 1..Len(args["sortCols"]) |->
             [columnId |-> args["sortCols"][i]["columnId"],
              direction |-> IF args["sortCols"][i]["sortAsc"] THEN <<"A", "S", "C">>
                            ELSE <<"D", "E", "S", "C">>]]
    ELSE <<[columnId |-> args["sortCol"]["id"],
            direction |-> IF args["sortAsc"] THEN <<"A", "S", "C">>
                          ELSE <<"D", "E", "S", "C">>]>>

\* C17: after handleLocalOnSort the current local sorters are exactly the
\* {columnId, direction} of the event's sort columns, in order, whatever
\* they were before; one onSortChanged event was published, carrying that
\* sequence, as the last effect of the call, after the sort of the data
\* view, which is the first effect when the grid has a data view.
C17_LocalSortersFollowEvent ==
    (op = "handleLocalOnSort") =>
        /\ call.status = "returned"
        /\ svc.currentLocalSorters = SortersOfEvent(call.args)
        /\ Len(Published("onSortChanged")) = 1
        /\ call.fx[Len(call.fx)] = <<"publish", "onSortChanged", SortersOfEvent(call.args)>>
        /\ call.before.grid.dataView =>
              /\ Len(SortEffects) = 1
              /\ call.fx[1] = SortEffects[1]

\* a multi-column event with two sort columns replaced the one sorter that
\* was current
C17_Witness ==
    /\ op = "handleLocalOnSort" /\ call.args["multiColumnSort"]
    /\ Len(call.before.svc.currentLocalSorters) = 1
    /\ Len(svc.currentLocalSorters) = 2
    /\ svc.currentLocalSorters[1]["columnId"] = "colB"
    /\ svc.currentLocalSorters[1]["direction"] = <<"A", "S", "C">>
    /\ svc.currentLocalSorters[2]["direction"] = <<"D", "E", "S", "C">>
    /\ call.fx[1][1] = "dataView.sort"

\* the last call removed the sort icons and sorted the data ascending by
\* the default sort field 'id'
ResortedByDefault ==
    /\ grid.sortColumns = <<>>
    /\ \E k \in 1..Len(call.fx) : call.fx[k] = <<"grid.setSortColumns", <<>> >>
    /\ Len(SortEffects) = 1
    /\ IF WasTreeMode
       THEN /\ SortEffects[1][1] = "dataView.setItems"
            /\ SortedBy(hierarchical, [columnId |-> "id", sortAsc |-> TRUE,
                                       sortCol |-> [id |-> "id", field |-> "id"]])
       ELSE /\ SortEffects[1][1] = "dataView.sort"
            /\ Len(SortEffects[1][2]) = 1
            /\ SortEffects[1][2][1]["sortCol"]["field"] = "id"
            /\ SortEffects[1][2][1]["sortAsc"]

\* when clearSorting returns there is no current local sorter and the call
\* has published onSortCleared exactly once
ClearedAndPublishedOnce ==
    /\ svc.currentLocalSorters = <<>>
    /\ Len(Published("onSortCleared")) = 1

\* C18, as stated: whenever clearSorting returns the local sorters are
\* empty and one onSortCleared was published; on a bound local grid with
\* triggerQueryEvent the icons are removed and the data is re-sorted
\* ascending by the default sort field.
C18_ClearSortingAsStated ==
    (op = "clearSorting" /\ call.status = "returned") =>
        /\ ClearedAndPublishedOnce
        /\ (WasBoundLocal /\ call.args) => ResortedByDefault

\* C18, amended: the same, the removal of the icons and the re-sort being
\* claimed for a bound local grid that has a data view and at least one
\* column definition; on a bound grid without a data view the icons, the
\* grid and the dataset stay as they were.
C18_ClearSorting ==
    (op = "clearSorting" /\ call.status = "returned") =>
        /\ ClearedAndPublishedOnce
        /\ (WasBoundLocal /\ call.args /\ call.before.grid.dataView
              /\ Len(call.before.grid.columns) > 0) =>
              ResortedByDefault
        /\ (call.before.svc.grid /\ ~call.before.grid.dataView) =>
              /\ grid = call.before.grid /\ hierarchical = given
              /\ SortEffects = <<>>
              /\ \A k \in 1..Len(call.fx) : call.fx[k][1] # "grid.setSortColumns"

\* a bound local grid with two sorters and two sort icons was cleared with
\* a query event
C18_Witness ==
    /\ op = "clearSorting" /\ call.status = "returned" /\ WasBoundLocal /\ call.args
    /\ Len(call.before.svc.currentLocalSorters) = 2
    /\ Len(call.before.grid.sortColumns) = 2
    /\ ResortedByDefault /\ ClearedAndPublishedOnce

\* C14: executeMappedCondition returns a boolean and raises no exception
\* for every operator, field type and parsed search terms, absent terms
\* and a single value included.
C14_NeverThrows ==
    (op = "executeMappedCondition") =>
        /\ filterOut.status = "returned"
        /\ filterOut.value \in BOOLEAN

\* ------------------------------------------------- parseBoolean: actions
InitParse ==
    /\ op = "init"
    /\ walk = NoWalk
    /\ \/ \E n \in 0..MaxStrLen : parseIn \in ParseInputs(n)
       \/ parseIn \in OtherParseInputs
    /\ parseOut = NoOut
    /\ call = NoOut /\ grid = NoGrid /\ svc = NoService
    /\ given = <<>> /\ hierarchical = <<>>
    /\ dataset = <<>> /\ treeOut = <<>> /\ rollup = "none"
    /\ sortColumns = <<>> /\ dataRow1 = EmptyObject /\ dataRow2 = EmptyObject
    /\ sortOut = NoOut
    /\ filterIn = NoOut /\ filterOut = NoOut

ParseBoolean ==
    /\ op = "init"
    /\ parseOut' = [status |-> "returned", value |-> parseBoolean(parseIn)]
    /\ op' = "parseBoolean"
    /\ UNCHANGED <<walk, parseIn, call, grid, svc, given, hierarchical, dataset, treeOut, rollup,
                   sortColumns, dataRow1, dataRow2, sortOut, filterIn, filterOut>>

NextParse == ParseBoolean

SpecParse == InitParse /\ [][NextParse]_vars

\* the inputs the claim names as true: boolean true, the number 1, the
\* string "true" in any letter case and the string "1"
NamedTrue(input) ==
    \/ input.type = "boolean" /\ input.flag
    \/ input.type = "number" /\ input.number = 1
    \/ input.type = "string" /\ toLowerCase(input.chars) = <<"t", "r", "u", "e">>
    \/ input.type = "string" /\ input.chars = <<"1">>

\* C19: parseBoolean returns true exactly for boolean true, "true" in any
\* letter case, "1" and the number 1, and false for every other input.
C19_TrueExactly ==
    (op = "parseBoolean") => (parseOut.value <=> NamedTrue(parseIn))

\* ------------------------- modifyDatasetToAddTreeItemsMapping, step by step
InitRollup ==
    /\ op = "init"
    /\ \E n \in 0..MaxRows : dataset \in FlatDatasets(n)
    /\ walk = [pc |-> "for", i |-> 1, item |-> 0, parent |-> 0, tick |-> 0]
    /\ rollup = "running"
    /\ parseIn = NoOut /\ parseOut = NoOut
    /\ call = NoOut /\ grid = NoGrid /\ svc = NoService
    /\ given = <<>> /\ hierarchical = <<>> /\ treeOut = <<>>
    /\ sortColumns = <<>> /\ dataRow1 = EmptyObject /\ dataRow2 = EmptyObject
    /\ sortOut = NoOut
    /\ filterIn = NoOut /\ filterOut = NoOut

\* one test of the for loop: past the last row the function returns; else
\* the row's list is seeded, item is the row, and unless its parent
\* reference is null the parent is looked up and the while loop is entered
ForStep ==
    /\ walk.pc = "for"
    /\ IF walk.i > Len(dataset)
       THEN /\ walk' = [walk EXCEPT !.pc = "done", !.tick = 1 - @]
            /\ rollup' = "done"
            /\ UNCHANGED dataset
       ELSE LET items1 == [dataset EXCEPT ![walk.i] =
                              SetProp(@, "__treeItems", <<GetProp(@, "title")>>)]
            IN  /\ dataset' = items1
                /\ rollup' = rollup
                /\ walk' = IF GetProp(items1[walk.i], "parentId") # Null
                           THEN [pc |-> "while", i |-> walk.i, item |-> walk.i,
                                 parent |-> getItemById(items1,
                                                GetProp(items1[walk.i], "parentId")),
                                 tick |-> 1 - walk.tick]
                           ELSE [pc |-> "for", i |-> walk.i + 1, item |-> walk.i,
                                 parent |-> 0, tick |-> 1 - walk.tick]
    /\ op' = "rollupStep"
    /\ UNCHANGED <<parseIn, parseOut, call, grid, svc, given, hierarchical, treeOut,
                   sortColumns, dataRow1, dataRow2, sortOut, filterIn, filterOut>>

\* one test of while (parent): without a parent the for loop goes on; a
\* parent without a list makes concat throw; else the lists are merged,
\* item becomes the parent and the next parent is looked up
WhileStep ==
    /\ walk.pc = "while"
    /\ IF walk.parent = 0
       THEN /\ walk' = [pc |-> "for", i |-> walk.i + 1, item |-> walk.item, parent |-> 0,
                         tick |-> 1 - walk.tick]
            /\ UNCHANGED <<dataset, rollup>>
       ELSE IF ~Has(dataset[walk.parent], "__treeItems")
       THEN /\ walk' = [walk EXCEPT !.pc = "threw", !.tick = 1 - @]
            /\ rollup' = "TypeError"
            /\ UNCHANGED dataset
       ELSE LET merged == dedupePrimitiveArray(dataset[walk.parent]["__treeItems"]
                                               \o dataset[walk.item]["__treeItems"])
                items1 == [dataset EXCEPT ![walk.parent] = SetProp(@, "__treeItems", merged)]
            IN  /\ dataset' = items1
                /\ rollup' = rollup
                /\ walk' = [pc |-> "while", i |-> walk.i, item |-> walk.parent,
                            parent |-> getItemById(items1,
                                           GetProp(items1[walk.parent], "parentId")),
                            tick |-> 1 - walk.tick]
    /\ op' = "rollupStep"
    /\ UNCHANGED <<parseIn, parseOut, call, grid, svc, given, hierarchical, treeOut,
                   sortColumns, dataRow1, dataRow2, sortOut, filterIn, filterOut>>

NextRollup == ForStep \/ WhileStep

\* the function runs on: a step that can be taken is taken
SpecRollup == InitRollup /\ [][NextRollup]_vars /\ WF_vars(NextRollup)

\* C20: modifyDatasetToAddTreeItemsMapping terminates on every finite flat
\* dataset, one with a row that is its own parent or with a cycle of parent
\* references included: it eventually returns (or throws).
C20_Terminates == <>(walk.pc \in {"done", "threw"})

\* C21: when the custom comparator of the first directive is neutral for
\* the two rows, the generic comparator is invoked for that same directive
\* and, if it is not neutral, decides the comparison.
C21_CustomNeutralFallsBack ==
    (op = "sortComparers" /\ Len(sortColumns) >= 1
       /\ Has(sortColumns[1], "sortCol") /\ Has(sortColumns[1]["sortCol"], "sortComparer")
       /\ Verdict(sortColumns[1]) = 0) =>
        LET c == sortColumns[1]["sortCol"]
            dir == IF sortColumns[1]["sortAsc"] THEN SortDirectionNumber.asc
                   ELSE SortDirectionNumber.desc
            generic == sortByFieldType(c["type"], dataRow1[c["field"]], dataRow2[c["field"]], dir)
        IN  /\ <<1, "generic">> \in {sortOut.calls[k] : k \in 1..Len(sortOut.calls)}
            /\ generic # 0 => sortOut.value = generic

\* the identifier of the node in whose children sequence node k of a
\* pre-order was visited; Null for a root
ParentIdIn(ref, k) ==
    IF ref[k].depth = 0 THEN Null
    ELSE LET p == CHOOSE j \in 1..(k - 1) :
                      /\ ref[j].depth = ref[k].depth - 1
                      /\ \A i \in (j + 1)..(k - 1) : ref[i].depth >= ref[k].depth
         IN  ref[p].id

\* C22: every record emitted by convertHierarchicalViewToFlatArray carries
\* as parent-id the identifier of the node in whose children sequence it
\* was visited, identifier 0 included, and null on every root.
C22_ParentIdStamped ==
    (op = "toFlat" /\ UniqueForest(hierarchical)) =>
        LET ref == Nodes(hierarchical)
        IN  \A k \in 1..Len(treeOut) : treeOut[k]["__parentId"] = ParentIdIn(ref, k)

\* ------------------------------------- the order of the sorts of one pass
\* the items of an array that carry a children array, in array order
WithChildren(array) == SelectSeq(array, LAMBDA item : Has(item, "children"))

\* the positions after j of the sorts made one level below sort j before
\* the pass returns to the level of sort j or above it
SortsBelow(steps, j) ==
    {k \in (j + 1)..Len(steps) :
        /\ steps[k].treeLevel = steps[j].treeLevel + 1
        /\ \A i \in (j + 1)..k : steps[i].treeLevel > steps[j].treeLevel}

\* the k-th smallest member of a set of positions
RECURSIVE NthOf(_, _)
NthOf(positions, n) ==
    LET least == CHOOSE p \in positions : \A q \in positions : p <= q
    IN  IF n = 1 THEN least ELSE NthOf(positions \ {least}, n - 1)

\* C23: a pass of sortTreeChild first sorts the array it is given and only
\* then the children arrays of its items, in the order the sort has left
\* the items in: the sort of a level is complete before any sort one level
\* deeper in that branch starts.
C23_LevelBeforeDeeper ==
    (op = "sortTreeChild") =>
        /\ Len(treeOut) >= 1 /\ treeOut[1].treeLevel = 0
        /\ IdsOf(treeOut[1].array) = IdsOf(given)
        /\ \A j \in 1..Len(treeOut) :
              LET parents == WithChildren(treeOut[j].array)
                  below == SortsBelow(treeOut, j)
              IN  /\ \A i \in 1..(Len(treeOut[j].array) - 1) :
                         TreeComparator(sortColumns[1], treeOut[j].array[i],
                                        treeOut[j].array[i + 1]) <= 0
                  /\ Cardinality(below) = Len(parents)
                  /\ \A n \in 1..Len(parents) :
                         IdsOf(treeOut[NthOf(below, n)].array) = IdsOf(parents[n]["children"])
        /\ \A k \in 2..Len(treeOut) :
              \E j \in 1..(k - 1) : k \in SortsBelow(treeOut, j)

\* a root array of two items that the sort reversed, the second given item
\* with a child: the children array was sorted after the root array
C23_Witness ==
    /\ op = "sortTreeChild" /\ Len(treeOut) = 2 /\ Len(given) = 2
    /\ treeOut[1].treeLevel = 0 /\ Len(treeOut[1].array) = 2
    /\ treeOut[1].array[1]["id"] = given[2]["id"]
    /\ treeOut[2].treeLevel = 1 /\ Len(treeOut[2].array) = 1
    /\ Has(given[2], "children")
    /\ IdsOf(treeOut[2].array) = IdsOf(given[2]["children"])

\* ------------------------------- sort service: enabling and disabling
\* the number of calls made on one service
MaxCalls == 3

\* the grids whose sorting is switched off and on: no tree data, and a
\* backend API that is complete when there is one
ToggleGrids ==
    {g \in Grids :
        /\ ~g.options.enableTreeData
        /\ g.options.backendServiceApi \in
              {NoApi, [present |-> TRUE, process |-> TRUE, service |-> TRUE, preProcess |-> FALSE]}}

\* the onSort events of a click on the header of colA
ToggleEvents == {e \in SortEvents : ~e["multiColumnSort"] /\ e["sortCol"]["id"] = "colA"}

InitToggle ==
    /\ op = "init"
    /\ walk = NoWalk
    /\ parseOut = NoOut
    /\ parseIn = NoOut
    /\ grid \in ToggleGrids
    /\ svc \in ServicesOf(grid)
    /\ hierarchical = <<>> /\ given = <<>>
    /\ call = [status |-> "none", log |-> <<>>]
    /\ dataset = <<>> /\ treeOut = <<>> /\ rollup = "none"
    /\ sortColumns = <<>> /\ dataRow1 = EmptyObject /\ dataRow2 = EmptyObject
    /\ sortOut = NoOut
    /\ filterIn = NoOut /\ filterOut = NoOut

\* the state a call leaves; log lists the calls made so far with the status
\* of each, the handlers that were subscribed when it started and, for a
\* call that switches sorting, whether it was asked to disable
Logged(name, args, disabling, r) ==
    /\ Len(call.log) < MaxCalls
    /\ svc' = r.svc /\ grid' = r.grid /\ hierarchical' = r.h
    /\ call' = [name |-> name, args |-> args, status |-> r.status, fx |-> r.fx,
                log |-> Append(call.log, [name |-> name, args |-> args, status |-> r.status,
                                          disabling |-> disabling,
                                          handlers |-> svc.subscribed])]
    /\ op' = name
    /\ UNCHANGED <<walk, parseOut, parseIn, given, dataset, treeOut, rollup, sortColumns, dataRow1, dataRow2, sortOut,
                   filterIn, filterOut>>

DisableSortFunctionality ==
    \E isSortingDisabled \in BOOLEAN, clearSortingWhenDisabled \in BOOLEAN :
        Logged("disableSortFunctionality", <<isSortingDisabled, clearSortingWhenDisabled>>,
               <<isSortingDisabled>>,
               disableSortFunctionality(Start, isSortingDisabled, clearSortingWhenDisabled))

ToggleSortFunctionality ==
    \E clearSortingOnDisable \in BOOLEAN :
        Logged("toggleSortFunctionality", <<clearSortingOnDisable>>,
               <<ToggledDisabling(Start)>>,
               toggleSortFunctionality(Start, clearSortingOnDisable))

\* the grid fires onSort
NotifyOnSort ==
    \E args \in ToggleEvents :
        Logged("onSort", <<args>>, <<>>, NotifyFrom(Start, svc.subscribed, 1, args))

DisposeService ==
    Logged("dispose", <<>>, <<>>, dispose(Start))

NextToggle ==
    DisableSortFunctionality \/ ToggleSortFunctionality \/ NotifyOnSort \/ DisposeService

SpecToggle == InitToggle /\ [][NextToggle]_vars

\* C24: after disableSortFunctionality(isSortingDisabled) returns, whatever
\* calls came before it, the option enableSorting and the sortable flag of
\* every column are the negation of isSortingDisabled.
C24_DisableSetsTheFlags ==
    (op = "disableSortFunctionality" /\ call.status = "returned") =>
        /\ grid.options.enableSorting = ~call.args[1]
        /\ \A k \in 1..Len(grid.columns) : grid.columns[k]["sortable"] = ~call.args[1]

\* C28: on a grid bound with bindBackendOnSort, an onSort event fired after
\* sorting was disabled and then enabled again finds exactly one handler
\* subscribed, the backend handler onBackendSortChanged.
C28_BackendHandlerAfterReenable ==
    (op = "onSort" /\ svc.grid /\ svc.isBackendGrid /\ Len(call.log) >= 3) =>
        LET k == Len(call.log)
        IN  (/\ call.log[1].handlers = <<"onBackendSortChanged">>
             /\ call.log[k - 2].disabling = <<TRUE>> /\ call.log[k - 2].status = "returned"
             /\ call.log[k - 1].disabling = <<FALSE>> /\ call.log[k - 1].status = "returned")
            => call.log[k].handlers = <<"onBackendSortChanged">>

\* --------------------------------- sort service: clearing one column
\* the ids of the columns of the grid: a number, and strings
ClearColumns ==
    {<<ColumnDef(TextId(<<"a">>), "colA"), ColumnDef(id7, "colB"), ColumnDef(TextId(<<"b">>), "colA")>> :
        id7 \in {NumberId(7), TextId(<<"7">>)}}

\* the sort icons of a grid: some of its columns, each once, in any order
SortIconsOf(columns) ==
    {l \in UNION {[1..n -> [columnId : {columns[k]["id"] : k \in 1..Len(columns)},
                            sortAsc : BOOLEAN]] : n \in 0..Len(columns)} :
        \A i, j \in 1..Len(l) : l[i]["columnId"] = l[j]["columnId"] => i = j}

ClearGrids ==
    {[options |-> [enableSorting |-> TRUE, enableTreeData |-> FALSE, backendServiceApi |-> api,
                   treeDataOptions |-> NoTreeDataOptions],
      columns |-> columns, sortColumns |-> icons, dataView |-> dataView] :
        api \in {NoApi, [present |-> TRUE, process |-> TRUE, service |-> TRUE, preProcess |-> FALSE]},
        dataView \in BOOLEAN,
        columns \in ClearColumns,
        icons \in UNION {SortIconsOf(c) : c \in ClearColumns}}

InitClearSort ==
    /\ op = "init"
    /\ walk = NoWalk
    /\ parseOut = NoOut
    /\ parseIn = NoOut
    /\ grid \in {g \in ClearGrids : g.sortColumns \in SortIconsOf(g.columns)}
    /\ svc \in ServicesOf(grid)
    /\ hierarchical = <<>> /\ given = <<>>
    /\ call = NoOut
    /\ dataset = <<>> /\ treeOut = <<>> /\ rollup = "none"
    /\ sortColumns = <<>> /\ dataRow1 = EmptyObject /\ dataRow2 = EmptyObject
    /\ sortOut = NoOut
    /\ filterIn = NoOut /\ filterOut = NoOut

\* the header menu command "Remove Sort" of a column, or a call with the
\* id of no column
ClearSortByColumnId ==
    /\ op = "init"
    /\ \E columnId \in {grid.columns[k]["id"] : k \in 1..Len(grid.columns)} \cup {TextId(<<"z">>)} :
          Finish("clearSortByColumnId", columnId, clearSortByColumnId(Start, columnId))

NextClearSort == ClearSortByColumnId

SpecClearSort == InitClearSort /\ [][NextClearSort]_vars

\* the sort icons as {columnId, sortAsc} pairs, without column c
IconsWithout(icons, c) ==
    LET kept == SelectSeq(icons, LAMBDA col : col["columnId"] # c)
    IN  [i \in 1..Len(kept) |-> [columnId |-> kept[i]["columnId"], sortAsc |-> kept[i]["sortAsc"]]]

\* C26: clearSortByColumnId(event, c) on a bound local grid where c is one
\* of the sorted columns leaves as sort columns and as current local
\* sorters the previous sort columns without c, in their order and with
\* their directions, for string and numeric ids alike; with no sorted
\* column left the last sort is ascending by the default sort field id.
C26_RemovesOnlyThatColumn ==
    (/\ op = "clearSortByColumnId" /\ WasBoundLocal
     /\ \E i \in 1..Len(call.before.grid.sortColumns) :
            call.before.grid.sortColumns[i]["columnId"] = call.args) =>
        LET expected == IconsWithout(call.before.grid.sortColumns, call.args)
        IN  /\ call.status = "returned"
            /\ [i \in 1..Len(grid.sortColumns) |->
                    [columnId |-> grid.sortColumns[i]["columnId"],
                     sortAsc |-> grid.sortColumns[i]["sortAsc"]]] = expected
            /\ svc.currentLocalSorters =
                   [i \in 1..Len(expected) |->
                       [columnId |-> expected[i]["columnId"],
                        direction |-> IF expected[i]["sortAsc"] THEN SortDirection.ASC
                                      ELSE SortDirection.DESC]]
            /\ expected = <<>> =>
                   /\ SortEffects # <<>>
                   /\ LET last == SortEffects[Len(SortEffects)]
                      IN  /\ last[1] = "dataView.sort" /\ Len(last[2]) = 1
                          /\ last[2][1]["sortCol"]["id"] = "id" /\ last[2][1]["sortAsc"]

\* C25: mapOperatorByFieldType returns contains for every field type that
\* the classifier calls text (string, text, password, readonly, unknown)
\* and equal for every field type it calls date or number.
C25_OperatorFollowsCategory ==
    (op = "mapOperatorByFieldType") =>
        LET fieldType == filterIn["fieldType"]
            general == getGeneralTypeByFieldType(fieldType)
        IN  /\ (general = "text" /\ fieldType \in TextFieldTypes \cup {"unknown"})
                   => filterOut.map = "contains"
            /\ general \in {"date", "number"} => filterOut.map = "equal"

\* ----------------------------------- tree conversions: the caller's input
\* given is the caller's array on the heap before the call; call holds the
\* heap as the call left it and the array it returned
InitCopy ==
    /\ op = "init"
    /\ walk = NoWalk
    /\ parseOut = NoOut
    /\ parseIn = NoOut
    /\ grid = NoGrid
    /\ svc = NoService
    /\ \E n \in 0..MaxRows :
          \/ dataset \in FlatDatasets(n) /\ hierarchical = <<>>
          \/ dataset = <<>> /\ hierarchical \in Forests(n)
    /\ given = StoreFrom(<<>>, IF dataset # <<>> THEN dataset ELSE hierarchical, 1, <<>>)
    /\ call = NoOut
    /\ treeOut = <<>>
    /\ rollup = "none"
    /\ sortColumns = <<>> /\ dataRow1 = EmptyObject /\ dataRow2 = EmptyObject
    /\ sortOut = NoOut
    /\ filterIn = NoOut /\ filterOut = NoOut

\* convertParentChildFlatArrayToHierarchicalView(flatArray) of the caller
ToHierarchicalOfCaller ==
    /\ op = "init" /\ hierarchical = <<>>
    /\ call' = convertParentChildFlatArrayToHierarchicalViewAt(given.heap, given.refs)
    /\ treeOut' = LoadAll(call'.heap, call'.refs)
    /\ op' = "toHierarchical"
    /\ UNCHANGED <<walk, parseOut, parseIn, grid, svc, given, dataset, hierarchical, rollup, sortColumns, dataRow1, dataRow2, sortOut, filterIn, filterOut>>

\* convertHierarchicalViewToFlatArray(hierarchicalArray) of the caller
ToFlatOfCaller ==
    /\ op = "init" /\ dataset = <<>>
    /\ call' = convertHierarchicalViewToFlatArrayAt(given.heap, given.refs)
    /\ treeOut' = LoadAll(call'.heap, call'.refs)
    /\ op' = "toFlat"
    /\ UNCHANGED <<walk, parseOut, parseIn, grid, svc, given, dataset, hierarchical, rollup, sortColumns, dataRow1, dataRow2, sortOut, filterIn, filterOut>>

NextCopy == ToHierarchicalOfCaller \/ ToFlatOfCaller

SpecCopy == InitCopy /\ [][NextCopy]_vars

\* C27: both conversions leave the caller's array as it was: every object
\* reachable from it has the fields and values it had before the call,
\* and the returned array is the one the conversion computes by value.
C27_InputUnchanged ==
    (op \in {"toHierarchical", "toFlat"}) =>
        /\ \A a \in 1..Len(given.heap) : call.heap[a] = given.heap[a]
        /\ \A k \in 1..Len(call.refs) : call.refs[k] > Len(given.heap)
        /\ op = "toHierarchical" =>
              treeOut = convertParentChildFlatArrayToHierarchicalView(dataset)
        /\ op = "toFlat" => treeOut = convertHierarchicalViewToFlatArray(hierarchical)

\* a stale flat array with a child row went through toHierarchical: the
\* copy of the parent got a children array and lost its bookkeeping
\* fields, the caller's rows kept theirs
C27_Witness ==
    /\ op = "toHierarchical" /\ Len(given.refs) = 2
    /\ \A a \in 1..2 : Has(given.heap[a], "__treeLevel") /\ Has(call.heap[a], "__treeLevel")
                       /\ ~Has(call.heap[a], "children")
    /\ Len(treeOut) = 1 /\ Has(treeOut[1], "children") /\ ~Has(treeOut[1], "__treeLevel")

\* a forest with a child went through toFlat: the copies were stamped and
\* the copy of the parent lost its children, the caller's nodes did not
C27_WitnessFlat ==
    /\ op = "toFlat" /\ Len(given.refs) = 1 /\ Len(treeOut) = 2
    /\ Has(call.heap[given.refs[1]], "children")
    /\ ~Has(call.heap[given.refs[1]], "__treeLevel")
    /\ Has(treeOut[1], "__hasChildren") /\ ~Has(treeOut[1], "children")

\* ---------------------------------------------- extension.service.ts
\* an object of the program: what it is an instance of, and a serial number
\* that tells two instances of one class apart
Obj(kind, serial) == [kind |-> kind, serial |-> serial]
NoObject == Obj("undefined", 0)

\* { name, class, instance }: one entry of an ExtensionList
ExtensionModel(name, class, instance) == [name |-> name, class |-> class, instance |-> instance]
NoExtension == ExtensionModel("undefined", NoObject, NoObject)

\* the five extensions the service gets injected
cellExternalCopyExtension == Obj("CellExternalCopyManagerExtension", 0)
checkboxSelectorExtension == Obj("CheckboxSelectorExtension", 0)
rowDetailViewExtension == Obj("RowDetailViewExtension", 0)
rowMoveManagerExtension == Obj("RowMoveManagerExtension", 0)
rowSelectionExtension == Obj("RowSelectionExtension", 0)

\* the shared service: the columns it keeps and the grid (slickGrid)
SharedService(columnDefinitions, slickGrid) ==
    [visibleColumns |-> slickGrid.columns, allColumns |-> columnDefinitions,
     columnDefinitions |-> columnDefinitions, slickGrid |-> slickGrid]

\* the service after construction; working: the injected extensions whose
\* create() and register() return an instance; controlColumns: the columns
\* property of the controls that were given one, by serial number;
\* disposeCalled: the objects whose dispose() the service has called;
\* noDispose: the kinds of object that have no dispose method
NewExtensionService(working, sharedService, noDispose) ==
    [sharedService |-> sharedService, controlColumns |-> EmptyObject,
     disposeCalled |-> {}, noDispose |-> noDispose,
     _cellMenuPlugin |-> NoObject, _contextMenuPlugin |-> NoObject,
     _columnPickerControl |-> NoObject, _draggleGroupingPlugin |-> NoObject,
     _gridMenuControl |-> NoObject, _groupItemMetadataProviderService |-> NoObject,
     _headerMenuPlugin |-> NoObject,
     _extensionCreatedList |-> EmptyObject, _extensionList |-> EmptyObject,
     working |-> working, serial |-> 0]

\* the object the next `new`, create() or register() makes
Fresh(r, kind) == Obj(kind, r.serial + 1)

getCreatedExtensionByName(r, name) ==
    IF Has(r._extensionCreatedList, name) THEN r._extensionCreatedList[name] ELSE NoExtension

getExtensionByName(r, name) ==
    IF Has(r._extensionList, name) THEN r._extensionList[name] ELSE NoExtension

\* _extensionList[name] = { name, class, instance }
Register(r, name, class, instance) ==
    [r EXCEPT !._extensionList = SetProp(@, name, ExtensionModel(name, class, instance))]

\* one feature of createExtensionByTheirColumnIndex: extension.create()
CreateFeature(r, gridOptions, flag, name, extension, made) ==
    IF flag \in gridOptions.enabled /\ ~Has(r._extensionCreatedList, name) /\ extension.kind \in r.working
    THEN [r EXCEPT !.serial = @ + 1,
                   !._extensionCreatedList =
                       SetProp(@, name, ExtensionModel(name, extension, Fresh(r, made)))]
    ELSE r

CreateDraggableGrouping(r, gridOptions) ==
    IF "enableDraggableGrouping" \in gridOptions.enabled
       /\ ~Has(r._extensionCreatedList, "draggableGrouping")
    THEN [r EXCEPT !.serial = @ + 1,
                   !._draggleGroupingPlugin = Fresh(r, "DraggableGroupingPlugin"),
                   !._extensionCreatedList =
                       SetProp(@, "draggableGrouping",
                               ExtensionModel("draggableGrouping", Fresh(r, "DraggableGroupingPlugin"),
                                              Fresh(r, "DraggableGroupingPlugin")))]
    ELSE r

\* the three features with a column index position, none of which gives
\* one, are created in the order they were pushed; then draggable grouping
createExtensionsBeforeGridCreation(r, gridOptions) ==
    CreateDraggableGrouping(
        CreateFeature(
            CreateFeature(
                CreateFeature(r, gridOptions, "enableCheckboxSelector", "checkboxSelector",
                              checkboxSelectorExtension, "SlickCheckboxSelectColumn"),
                gridOptions, "enableRowMoveManager", "rowMoveManager",
                rowMoveManagerExtension, "SlickRowMoveManager"),
            gridOptions, "enableRowDetailView", "rowDetailView",
            rowDetailViewExtension, "SlickRowDetailView"),
        gridOptions)

\* gridOptions.enableColumnReorder = this._draggleGroupingPlugin.setupColumnReorder
OptionsAfterCreate(r, gridOptions) ==
    IF "enableDraggableGrouping" \in gridOptions.enabled
       /\ ~Has(r._extensionCreatedList, "draggableGrouping")
    THEN [gridOptions EXCEPT !.enableColumnReorder = "setupColumnReorder"]
    ELSE gridOptions

\* a plugin or control the service makes with `new` and keeps in a field
BindOwn(r, gridOptions, flag, name, kind, field) ==
    IF flag \in gridOptions.enabled
    THEN Register([r EXCEPT !.serial = @ + 1, ![field] = Fresh(r, kind)],
                  name, Fresh(r, kind), Fresh(r, kind))
    ELSE r

\* a plugin the service makes with `new` and keeps in the list only
BindLocal(r, gridOptions, flag, name, kind) ==
    IF flag \in gridOptions.enabled
    THEN Register([r EXCEPT !.serial = @ + 1], name, Fresh(r, kind), Fresh(r, kind))
    ELSE r

BindExcelCopyBuffer(r, gridOptions) ==
    IF "enableExcelCopyBuffer" \in gridOptions.enabled
       /\ cellExternalCopyExtension.kind \in r.working
    THEN Register([r EXCEPT !.serial = @ + 1], "cellExternalCopyManager",
                  cellExternalCopyExtension, Fresh(r, "SlickCellExternalCopyManager"))
    ELSE r

BindRowSelection(r, gridOptions) ==
    IF /\ ~Has(r._extensionList, "rowSelection")
       /\ gridOptions.enabled \cap {"enableRowSelection", "enableCheckboxSelector",
                                    "enableRowDetailView", "enableRowMoveManager"} # {}
       /\ rowSelectionExtension.kind \in r.working
    THEN Register([r EXCEPT !.serial = @ + 1], "rowSelection",
                  rowSelectionExtension, Fresh(r, "SlickRowSelectionModel"))
    ELSE r

\* an extension created before the grid: register(), then the entry gets
\* the instance of the created list
BindCreated(r, gridOptions, flag, name, extension) ==
    IF flag \in gridOptions.enabled /\ getCreatedExtensionByName(r, name).instance # NoObject
    THEN Register(r, name, extension, getCreatedExtensionByName(r, name).instance)
    ELSE r

BindDraggableGrouping(r, gridOptions) ==
    IF "enableDraggableGrouping" \in gridOptions.enabled
    THEN Register(IF r._draggleGroupingPlugin # NoObject
                  THEN Register(r, "contextMenu", r._draggleGroupingPlugin, r._draggleGroupingPlugin)
                  ELSE r,
                  "draggableGrouping", r._draggleGroupingPlugin, r._draggleGroupingPlugin)
    ELSE r

BindGrouping(r, gridOptions) ==
    IF gridOptions.enabled \cap {"enableDraggableGrouping", "enableGrouping"} # {}
    THEN IF r._groupItemMetadataProviderService # NoObject
         THEN Register(r, "groupItemMetaProvider", r._groupItemMetadataProviderService,
                       r._groupItemMetadataProviderService)
         ELSE Register([r EXCEPT !.serial = @ + 1,
                                 !._groupItemMetadataProviderService =
                                     Fresh(r, "GroupItemMetadataProviderService")],
                       "groupItemMetaProvider", Fresh(r, "GroupItemMetadataProviderService"),
                       Fresh(r, "GroupItemMetadataProviderService"))
    ELSE r

\* the controls and plugins in the order the code binds them; no
\* onExtensionRegistered callback is given and nothing is translated
bindDifferentExtensions(r, gridOptions) ==
    BindCreated(
     BindCreated(
      BindOwn(
       BindLocal(
        BindGrouping(
         BindOwn(
          BindDraggableGrouping(
           BindOwn(
            BindOwn(
             BindCreated(
              BindRowSelection(
               BindOwn(
                BindExcelCopyBuffer(
                 BindLocal(r, gridOptions, "enableAutoTooltip", "autoTooltip", "AutoTooltipPlugin"),
                 gridOptions),
                gridOptions, "enableCellMenu", "cellMenu", "CellMenuPlugin", "_cellMenuPlugin"),
               gridOptions),
              gridOptions, "enableCheckboxSelector", "checkboxSelector", checkboxSelectorExtension),
             gridOptions, "enableColumnPicker", "columnPicker", "ColumnPickerControl",
             "_columnPickerControl"),
            gridOptions, "enableContextMenu", "contextMenu", "ContextMenuPlugin",
            "_contextMenuPlugin"),
           gridOptions),
          gridOptions, "enableGridMenu", "gridMenu", "GridMenuControl", "_gridMenuControl"),
         gridOptions),
        gridOptions, "enableHeaderButton", "headerButton", "HeaderButtonPlugin"),
       gridOptions, "enableHeaderMenu", "headerMenu", "HeaderMenuPlugin", "_headerMenuPlugin"),
      gridOptions, "enableRowDetailView", "rowDetailView", rowDetailViewExtension),
     gridOptions, "enableRowMoveManager", "rowMoveManager", rowMoveManagerExtension)

\* extension?.class?.dispose, extension?.instance?.dispose: the object is
\* there and has the method
HasDispose(r, object) == object # NoObject /\ object.kind \notin r.noDispose

\* the class and the instance of every entry of the list that have a
\* dispose method: dispose() is called on each of them
DisposedByList(r) ==
    {object \in UNION {{r._extensionList[name].class, r._extensionList[name].instance} :
                          name \in DOMAIN r._extensionList} : HasDispose(r, object)}

\* dispose(): sharedService.visibleColumns = [], the class and the instance
\* of every entry of _extensionList are disposed of and every entry is
\* deleted; the created list and the fields of the service keep what they
\* hold
disposeExtensionService(r) ==
    [r EXCEPT !.sharedService.visibleColumns = <<>>,
              !.disposeCalled = @ \cup DisposedByList(r),
              !._extensionList = EmptyObject]

\* slickGrid.getColumnIndex(id): 0 stands for undefined
ColumnIndexOf(columns, id) ==
    IF \E k \in 1..Len(columns) : columns[k] = id
    THEN CHOOSE k \in 1..Len(columns) : columns[k] = id /\ \A j \in 1..(k - 1) : columns[j] # id
    ELSE 0

\* removeColumnByIndex(columns, index)
removeColumnByIndex(columns, index) ==
    LET kept == SelectSeq([i \in 1..Len(columns) |-> i], LAMBDA i : i # index)
    IN  [k \in 1..Len(kept) |-> columns[kept[k]]]

\* what hideColumn does with the columns left
SetVisibleColumns(r, visibleColumns) ==
    [r EXCEPT !.sharedService.visibleColumns = visibleColumns,
              !.sharedService.slickGrid.columns = visibleColumns]

\* hideColumn(column); a column is known by its id
hideColumn(r, column) ==
    SetVisibleColumns(r, removeColumnByIndex(r.sharedService.slickGrid.columns,
                             ColumnIndexOf(r.sharedService.slickGrid.columns, column)))

\* the end of renderColumnHeaders: the column picker and the grid menu get
\* sharedService.allColumns as their columns
SetControlColumns(r, gridOptions) ==
    [r EXCEPT !.controlColumns =
        (IF r._gridMenuControl # NoObject
         THEN (r._gridMenuControl.serial :> r.sharedService.allColumns) ELSE EmptyObject)
        @@ (IF "enableColumnPicker" \in gridOptions.enabled /\ r._columnPickerControl # NoObject
            THEN (r._columnPickerControl.serial :> r.sharedService.allColumns) ELSE EmptyObject)
        @@ @]

\* renderColumnHeaders once the collection is known
RenderCollection(r, gridOptions, collection, forceColumnDefinitionsOverwrite) ==
    SetControlColumns(
        [r EXCEPT !.sharedService.allColumns =
                      IF Len(collection) > Len(@) \/ forceColumnDefinitionsOverwrite
                      THEN collection ELSE @,
                  !.sharedService.slickGrid.columns = collection],
        gridOptions)

\* renderColumnHeaders(newColumnDefinitions?, forceColumnDefinitionsOverwrite):
\* <<>> stands for no first argument, <<columns>> for one
renderColumnHeaders(r, gridOptions, newColumnDefinitions, forceColumnDefinitionsOverwrite) ==
    RenderCollection(r, gridOptions,
                     IF newColumnDefinitions = <<>> THEN r.sharedService.columnDefinitions
                     ELSE newColumnDefinitions[1],
                     forceColumnDefinitionsOverwrite)

\* --------------------------------------- extension service: inputs
MaxEnabled == 2     \* features enabled in one set of grid options

\* enum ExtensionName
ExtensionNames ==
    {"autoTooltip", "cellExternalCopyManager", "cellMenu", "checkboxSelector", "columnPicker",
     "contextMenu", "draggableGrouping", "gridMenu", "groupItemMetaProvider", "headerButton",
     "headerMenu", "rowDetailView", "rowMoveManager", "rowSelection"}

\* the grid options that enable a control or a plugin
EnableFlags ==
    {"enableAutoTooltip", "enableExcelCopyBuffer", "enableCellMenu", "enableRowSelection",
     "enableCheckboxSelector", "enableColumnPicker", "enableContextMenu",
     "enableDraggableGrouping", "enableGridMenu", "enableGrouping", "enableHeaderButton",
     "enableHeaderMenu", "enableRowDetailView", "enableRowMoveManager"}

ExtensionGridOptions ==
    {[enabled |-> e, enableColumnReorder |-> "undefined"] :
        e \in {s \in SUBSET EnableFlags : Cardinality(s) <= MaxEnabled}}

InjectedExtensions ==
    {cellExternalCopyExtension.kind, checkboxSelectorExtension.kind, rowDetailViewExtension.kind,
     rowMoveManagerExtension.kind, rowSelectionExtension.kind}

\* a grid showing its one column
OneColumnGrid ==
    [columns |-> <<"colA">>,
     options |-> [forceFitColumns |-> FALSE, syncColumnCellResize |-> FALSE]]

\* the objects of the grid library that create() and register() return
LibraryKinds ==
    {"SlickCheckboxSelectColumn", "SlickRowMoveManager", "SlickRowDetailView",
     "SlickCellExternalCopyManager", "SlickRowSelectionModel"}

\* every injected extension works, or all but one of the selection
\* extensions do; every object has a dispose method, or all but those of
\* the grid library have
ExtensionServices ==
    {NewExtensionService(InjectedExtensions \ broken, SharedService(<<"colA">>, OneColumnGrid),
                         noDispose) :
        broken \in {{}, {checkboxSelectorExtension.kind}, {rowSelectionExtension.kind}},
        noDispose \in {{}, LibraryKinds}}

InitExtensions ==
    /\ op = "init"
    /\ walk = NoWalk
    /\ parseOut = NoOut
    /\ parseIn = NoOut
    /\ grid \in ExtensionGridOptions
    /\ svc \in ExtensionServices
    /\ hierarchical = <<>> /\ given = <<>>
    /\ call = NoOut
    /\ dataset = <<>> /\ treeOut = <<>> /\ rollup = "none"
    /\ sortColumns = <<>> /\ dataRow1 = EmptyObject /\ dataRow2 = EmptyObject
    /\ sortOut = NoOut
    /\ filterIn = NoOut /\ filterOut = NoOut

OfExtensions(name) ==
    /\ op' = name
    /\ UNCHANGED <<dataset, hierarchical, treeOut, rollup, sortColumns, dataRow1, dataRow2,
                   sortOut, filterIn, filterOut, given, parseIn, parseOut, walk>>

CreateExtensionsBeforeGridCreation ==
    /\ op = "init"
    /\ svc' = createExtensionsBeforeGridCreation(svc, grid)
    /\ grid' = OptionsAfterCreate(svc, grid)
    /\ call' = NoOut
    /\ OfExtensions("createExtensionsBeforeGridCreation")

\* call.disposed: dispose() was called since the extensions were bound
BindDifferentExtensions ==
    /\ op = "createExtensionsBeforeGridCreation"
    /\ svc' = bindDifferentExtensions(svc, grid)
    /\ call' = [status |-> "none", disposed |-> FALSE]
    /\ OfExtensions("bindDifferentExtensions")
    /\ UNCHANGED grid

\* the operations after which the extensions are bound
ExtensionsBound ==
    {"bindDifferentExtensions", "getExtensionByName", "dispose", "hideColumn",
     "renderColumnHeaders"}

GetExtensionByName ==
    /\ op \in ExtensionsBound
    /\ \E name \in ExtensionNames :
          call' = [status |-> "returned", disposed |-> call.disposed, args |-> name,
                   result |-> getExtensionByName(svc, name)]
    /\ OfExtensions("getExtensionByName")
    /\ UNCHANGED <<svc, grid>>

DisposeExtensionService ==
    /\ op \in ExtensionsBound
    /\ svc' = disposeExtensionService(svc)
    /\ call' = [status |-> "returned", disposed |-> TRUE]
    /\ OfExtensions("dispose")
    /\ UNCHANGED grid

\* hideColumn with the column of the grid, or with a column it does not show
HideColumnOfService ==
    /\ op \in ExtensionsBound
    /\ \E column \in {"colA", "colZ"} : svc' = hideColumn(svc, column)
    /\ call' = [status |-> "returned", disposed |-> call.disposed]
    /\ OfExtensions("hideColumn")
    /\ UNCHANGED grid

RenderColumnHeadersOfService ==
    /\ op \in ExtensionsBound
    /\ \E force \in BOOLEAN : svc' = renderColumnHeaders(svc, grid, <<>>, force)
    /\ call' = [status |-> "returned", disposed |-> call.disposed]
    /\ OfExtensions("renderColumnHeaders")
    /\ UNCHANGED grid

NextExtensions ==
    \/ CreateExtensionsBeforeGridCreation
    \/ BindDifferentExtensions
    \/ GetExtensionByName
    \/ DisposeExtensionService
    \/ HideColumnOfService
    \/ RenderColumnHeadersOfService

SpecExtensions == InitExtensions /\ [][NextExtensions]_vars

\* C29: after createExtensionsBeforeGridCreation and bindDifferentExtensions
\* on grid options with enableContextMenu, getExtensionByName(contextMenu)
\* returns the entry named contextMenu whose class and instance are the
\* ContextMenuPlugin the bind call made, whatever else is enabled, as long
\* as the service was not disposed of in between.
C29_ContextMenuEntryKept ==
    (/\ op = "getExtensionByName" /\ call.args = "contextMenu" /\ ~call.disposed
     /\ "enableContextMenu" \in grid.enabled) =>
        /\ svc._contextMenuPlugin.kind = "ContextMenuPlugin"
        /\ call.result = ExtensionModel("contextMenu", svc._contextMenuPlugin,
                                        svc._contextMenuPlugin)

\* ------------------------------------------ extensionCommonUtils.ts
\* a checkbox of the list of the picker: whether it is checked, and
\* dataset.columnid
Checkbox(checked, columnid) == [checked |-> checked, columnid |-> columnid]

\* context.columns[idx]; "undefined" past the end of the columns
ColumnAt(columns, i) == IF i <= Len(columns) THEN columns[i] ELSE "undefined"

\* the forEach over _columnCheckboxes: the picker columns at the places of
\* the checked checkboxes, in the order of the checkboxes
CheckedColumns(columns, columnCheckboxes) ==
    LET checked == SelectSeq([i \in 1..Len(columnCheckboxes) |-> i],
                             LAMBDA i : columnCheckboxes[i].checked)
    IN  [k \in 1..Len(checked) |-> ColumnAt(columns, checked[k])]

\* context.sharedService.visibleColumns = visibleColumns, when the lengths differ
KeepVisibleColumns(s, visibleColumns) ==
    IF Len(visibleColumns) # Len(s.context.sharedService.visibleColumns)
    THEN [s EXCEPT !.context.sharedService.visibleColumns = visibleColumns]
    ELSE s

\* grid.setSelectedRows(grid.getSelectedRows()) when a column is shown on a
\* grid with row selection
ReapplyRowSelection(s, isChecked) ==
    IF s.context.gridOptions.enableRowSelection /\ isChecked
    THEN [s EXCEPT !.context.fx = Append(@, "setSelectedRows")]
    ELSE s

ReadjustFrozenColumn(s) ==
    IF (IF s.context.gridOptions.frozenColumn = Undefined
        THEN 0 - 1 ELSE s.context.gridOptions.frozenColumn) >= 0
    THEN [s EXCEPT !.context.fx = Append(@, "readjustFrozenColumnIndexWhenNeeded")]
    ELSE s

\* pubSubService.publish and the user callback of the addon options
PublishColumnsChanged(s, callbackArgs) ==
    [s EXCEPT !.context.published =
                  Append(@, [name |-> s.context.controlType, args |-> callbackArgs]),
              !.context.fx = IF s.context.addonOptions.onColumnsChanged
                             THEN Append(@, "addonOptions.onColumnsChanged") ELSE @]

\* the checkbox branch once some checkbox is checked
ShowCheckedColumns(s, columnId, isChecked, visibleColumns) ==
    PublishColumnsChanged(
        ReadjustFrozenColumn(
            ReapplyRowSelection(
                KeepVisibleColumns([s EXCEPT !.grid.columns = visibleColumns], visibleColumns),
                isChecked)),
        [columnId |-> columnId, showing |-> isChecked, allColumns |-> s.context.columns,
         visibleColumns |-> visibleColumns])

\* the autoresize branch: grid.setOptions({ forceFitColumns }), then
\* grid.setColumns with what context.getVisibleColumns() gave before
ForceFitColumns(s, previousVisibleColumns) ==
    [s EXCEPT !.grid.options.forceFitColumns = s.context.fitChecked,
              !.grid.columns = previousVisibleColumns]

\* the handler without the check for an empty list of visible columns
handleColumnPickerItemClickAlways(s, event) ==
    IF event.option = "autoresize"
    THEN ForceFitColumns(s, event.visibleColumns)
    ELSE IF event.option = "syncresize"
    THEN [s EXCEPT !.grid.options.syncColumnCellResize = s.context.syncChecked]
    ELSE ShowCheckedColumns([s EXCEPT !.context._areVisibleColumnDifferent = TRUE],
                            s.context._columnCheckboxes[event.idx].columnid,
                            s.context._columnCheckboxes[event.idx].checked,
                            CheckedColumns(s.context.columns, s.context._columnCheckboxes))

\* s: the picker control (context) and its grid, the clicked checkbox
\* already toggled by the browser; event: the option of the clicked
\* checkbox or its place in _columnCheckboxes, and what
\* context.getVisibleColumns() returns
handleColumnPickerItemClick(s, event) ==
    IF event.option = "autoresize"
    THEN ForceFitColumns(s, event.visibleColumns)
    ELSE IF event.option = "syncresize"
    THEN [s EXCEPT !.grid.options.syncColumnCellResize = s.context.syncChecked]
    ELSE IF CheckedColumns(s.context.columns, s.context._columnCheckboxes) = <<>>
    THEN [s EXCEPT !.context._areVisibleColumnDifferent = TRUE,
                   !.context._columnCheckboxes[event.idx].checked = TRUE]
    ELSE ShowCheckedColumns([s EXCEPT !.context._areVisibleColumnDifferent = TRUE],
                            s.context._columnCheckboxes[event.idx].columnid,
                            s.context._columnCheckboxes[event.idx].checked,
                            CheckedColumns(s.context.columns, s.context._columnCheckboxes))

\* the checkboxes populateColumnPicker makes: one per picker column,
\* checked when the grid shows the column
NewColumnCheckboxes(columns, gridColumns) ==
    [i \in 1..Len(columns) |->
        Checkbox(\E k \in 1..Len(gridColumns) : gridColumns[k] = columns[i], columns[i])]

\* populateColumnPicker(addonOptions), no button hidden: the new checkboxes
\* are pushed onto _columnCheckboxes, and the two option checkboxes made
\* are checked as the grid options say
populateColumnPicker(s) ==
    [s EXCEPT !.context._columnCheckboxes =
                  @ \o NewColumnCheckboxes(s.context.columns, s.grid.columns),
              !.context.fitChecked = s.grid.options.forceFitColumns,
              !.context.syncChecked = s.grid.options.syncColumnCellResize]

\* ------------------------------------------- column picker: inputs
PickerColumns == <<"colA", "colB", "colC">>

\* a grid showing some of the picker columns, at least one, in picker order
PickerGrids ==
    {[columns |-> SelectSeq(PickerColumns, LAMBDA c : shown[ColumnIndexOf(PickerColumns, c)]),
      options |-> [forceFitColumns |-> FALSE, syncColumnCellResize |-> FALSE]] :
        shown \in {f \in [1..Len(PickerColumns) -> BOOLEAN] : \E i \in DOMAIN f : f[i]}}

\* a ColumnPickerControl or a GridMenuControl on that grid, before its list
\* is populated; disposed: dispose() of the control was called
NewPickerControls(g) ==
    {[controlType |-> type, columns |-> PickerColumns,
      _columnCheckboxes |-> <<>>,
      _areVisibleColumnDifferent |-> FALSE, disposed |-> FALSE,
      fitChecked |-> FALSE, syncChecked |-> FALSE,
      sharedService |-> [visibleColumns |-> g.columns, allColumns |-> PickerColumns,
                         columnDefinitions |-> PickerColumns],
      gridOptions |-> [enableRowSelection |-> with, frozenColumn |-> IF with THEN 0 ELSE Undefined],
      addonOptions |-> [onColumnsChanged |-> with],
      published |-> <<>>, fx |-> <<>>] :
        type \in {"columnPicker:onColumnsChanged", "gridMenu:onColumnsChanged"},
        with \in BOOLEAN}

\* the control with its list populated
PickerControls(g) ==
    {populateColumnPicker([context |-> c, grid |-> g]).context : c \in NewPickerControls(g)}

MaxCheckboxes == 6  \* checkboxes in the list of a picker

\* the calls that handleColumnPickerItemClick handles
ClickNames == {"clickColumnCheckbox", "clickForceFit", "clickSyncResize"}

\* onlyClicks: every call so far was a click on a checkbox of the picker
NoClick == [status |-> "none", clicks |-> 0, onlyClicks |-> TRUE]

InitPicker ==
    /\ op = "init"
    /\ walk = NoWalk
    /\ parseOut = NoOut
    /\ parseIn = NoOut
    /\ grid \in PickerGrids
    /\ svc \in PickerControls(grid)
    /\ hierarchical = <<>> /\ given = <<>>
    /\ call = NoClick
    /\ dataset = <<>> /\ treeOut = <<>> /\ rollup = "none"
    /\ sortColumns = <<>> /\ dataRow1 = EmptyObject /\ dataRow2 = EmptyObject
    /\ sortOut = NoOut
    /\ filterIn = NoOut /\ filterOut = NoOut

\* a call that leaves state s; for a click, the browser toggled the checkbox
\* and the handler ran
Called(name, event, before, s) ==
    /\ call.clicks < MaxCalls
    /\ svc' = s.context
    /\ grid' = s.grid
    /\ call' = [status |-> "returned", clicks |-> call.clicks + 1, args |-> event,
                before |-> before,
                onlyClicks |-> call.onlyClicks /\ name \in ClickNames]
    /\ OfExtensions(name)

\* updateColumnPickerOrder(): a picker column the grid does not show keeps
\* its place, the other places take the grid's columns in the grid's
\* order; "undefined" stands for what shift() gives once none is left
updateColumnPickerOrder(s) ==
    [s EXCEPT !.context.columns =
        [i \in 1..Len(s.context.columns) |->
            IF ColumnIndexOf(s.grid.columns, s.context.columns[i]) = 0
            THEN s.context.columns[i]
            ELSE IF Cardinality({j \in 1..i :
                        ColumnIndexOf(s.grid.columns, s.context.columns[j]) # 0})
                    <= Len(s.grid.columns)
                 THEN s.grid.columns[Cardinality({j \in 1..i :
                        ColumnIndexOf(s.grid.columns, s.context.columns[j]) # 0})]
                 ELSE "undefined"]]

\* the grid's columns were reordered and the picker follows
UpdateColumnPickerOrder ==
    Called("updateColumnPickerOrder", [option |-> "none", idx |-> 0],
           [context |-> svc, grid |-> grid],
           updateColumnPickerOrder([context |-> svc, grid |-> grid]))

\* the grid options with which the control was made
OptionsOfPicker(context) ==
    [enabled |-> IF context.controlType = "columnPicker:onColumnsChanged"
                 THEN {"enableColumnPicker"} ELSE {"enableGridMenu"},
     enableColumnReorder |-> "undefined"]

\* the state of the picker put into the extension service r that made it:
\* a service that was disposed of has disposed of the control and has an
\* empty list
WithPicker(r, context) ==
    [(IF context.disposed THEN disposeExtensionService(r) ELSE r)
     EXCEPT !.controlColumns = (1 :> context.columns),
            !.sharedService.visibleColumns = context.sharedService.visibleColumns]

\* the extension service of the grid of the picker: bindDifferentExtensions
\* made the control, the first object of the service, which has a dispose
\* method, and listed it
ServiceOfPicker(context, slickGrid) ==
    WithPicker(
        bindDifferentExtensions(
            NewExtensionService(InjectedExtensions,
                [visibleColumns |-> context.sharedService.visibleColumns,
                 allColumns |-> context.sharedService.allColumns,
                 columnDefinitions |-> context.sharedService.columnDefinitions,
                 slickGrid |-> slickGrid],
                {}),
            OptionsOfPicker(context)),
        context)

\* the picker and its grid after a call on the extension service
PickerAfter(context, r) ==
    [context |-> [context EXCEPT
                     !.columns = r.controlColumns[1],
                     !.disposed = \E o \in r.disposeCalled : o.serial = 1,
                     !.sharedService = [visibleColumns |-> r.sharedService.visibleColumns,
                                        allColumns |-> r.sharedService.allColumns,
                                        columnDefinitions |-> r.sharedService.columnDefinitions]],
     grid |-> r.sharedService.slickGrid]

\* ExtensionService.hideColumn with a picker column
HideColumn ==
    \E column \in {PickerColumns[i] : i \in 1..Len(PickerColumns)} :
        Called("hideColumn", [option |-> "none", idx |-> 0, column |-> column],
               [context |-> svc, grid |-> grid],
               PickerAfter(svc, hideColumn(ServiceOfPicker(svc, grid), column)))

\* ExtensionService.renderColumnHeaders: without arguments, or with the
\* picker columns in reverse order as the new column definitions
RenderColumnHeaders ==
    \E input \in {<<<<>>, FALSE>>,
                  <<<<[i \in 1..Len(PickerColumns) |->
                         PickerColumns[Len(PickerColumns) + 1 - i]]>>, TRUE>>} :
        Called("renderColumnHeaders", [option |-> "none", idx |-> 0, given |-> input],
               [context |-> svc, grid |-> grid],
               PickerAfter(svc, renderColumnHeaders(ServiceOfPicker(svc, grid),
                                                    OptionsOfPicker(svc), input[1], input[2])))

\* ExtensionService.dispose
DisposeServiceOfPicker ==
    Called("dispose", [option |-> "none", idx |-> 0],
           [context |-> svc, grid |-> grid],
           PickerAfter(svc, disposeExtensionService(ServiceOfPicker(svc, grid))))

\* a click on a checkbox of the list
ClickColumnCheckbox ==
    \E idx \in 1..Len(svc._columnCheckboxes) :
        Called("clickColumnCheckbox", [option |-> "none", idx |-> idx],
                [context |-> svc, grid |-> grid],
                handleColumnPickerItemClick(
                    [context |-> [svc EXCEPT !._columnCheckboxes[idx].checked = ~@],
                     grid |-> grid],
                    [option |-> "none", idx |-> idx]))

\* a click on "Force fit columns"; getVisibleColumns() of the control gives
\* the columns of the grid or those the shared service keeps
ClickForceFit ==
    \E visibleColumns \in {grid.columns, svc.sharedService.visibleColumns} :
        Called("clickForceFit",
               [option |-> "autoresize", idx |-> 0, visibleColumns |-> visibleColumns],
               [context |-> svc, grid |-> grid],
               handleColumnPickerItemClick(
                   [context |-> [svc EXCEPT !.fitChecked = ~@], grid |-> grid],
                   [option |-> "autoresize", idx |-> 0, visibleColumns |-> visibleColumns]))

\* populateColumnPicker on a list that has its checkboxes already
PopulateColumnPicker ==
    /\ Len(svc._columnCheckboxes) + Len(svc.columns) <= MaxCheckboxes
    /\ Called("populateColumnPicker", [option |-> "none", idx |-> 0],
              [context |-> svc, grid |-> grid],
              populateColumnPicker([context |-> svc, grid |-> grid]))

\* a click on "Synchronous resize"
ClickSyncResize ==
    Called("clickSyncResize", [option |-> "syncresize", idx |-> 0],
            [context |-> svc, grid |-> grid],
            handleColumnPickerItemClick(
                [context |-> [svc EXCEPT !.syncChecked = ~@], grid |-> grid],
                [option |-> "syncresize", idx |-> 0]))

NextPicker ==
    \/ ClickColumnCheckbox
    \/ ClickForceFit
    \/ ClickSyncResize
    \/ HideColumn
    \/ RenderColumnHeaders
    \/ DisposeServiceOfPicker
    \/ UpdateColumnPickerOrder
    \/ PopulateColumnPicker

SpecPicker == InitPicker /\ [][NextPicker]_vars

\* the checkboxes of the control before the click, with the clicked one toggled
ToggledBefore ==
    [call.before.context._columnCheckboxes EXCEPT ![call.args.idx].checked = ~@]

\* the picker columns whose checkbox is checked in the list boxes, in picker
\* order; every checkbox of the list stands at the place of its column
ColumnsCheckedIn(boxes) ==
    LET places == SelectSeq([i \in 1..Len(boxes) |-> i], LAMBDA i : boxes[i].checked)
    IN  [k \in 1..Len(places) |-> svc.columns[places[k]]]

====
